---------------------------- MODULE Spec2Model ----------------------------
(***************************************************************************)
(* A model of the search API: parameter canonicalization                   *)
(* (Parameters.py), the comment / submission / user / comment-id handlers  *)
(* (Comment.py, Submission.py, User.py), the search-engine failover and    *)
(* the relational store's retry loop (DBFunctions.py).                     *)
(*                                                                         *)
(* Python strings are sequences of one-character strings, so that          *)
(* slicing, startswith(), lower() and int() are computed, not assumed.     *)
(* Python values are tagged records [t, v]: t is "str", "int", "list" or   *)
(* "none".  A dict is a function from keys to values.                      *)
(***************************************************************************)
EXTENDS Integers, Sequences, FiniteSets, TLC

(***************************************************************************)
(* Values                                                                  *)
(***************************************************************************)
PStr(s) == [t |-> "str", v |-> s]
PInt(n) == [t |-> "int", v |-> n]
PList(l) == [t |-> "list", v |-> l]
None == [t |-> "none", v |-> <<>>]

IsStr(x) == x.t = "str"
IsNone(x) == x.t = "none"

(***************************************************************************)
(* Characters and str methods                                              *)
(***************************************************************************)
DigitChars == <<"0", "1", "2", "3", "4", "5", "6", "7", "8", "9">>
UpperChars == <<"A", "B", "C", "D", "E", "F", "G", "H", "I", "J", "K", "L", "M",
                "N", "O", "P", "Q", "R", "S", "T", "U", "V", "W", "X", "Y", "Z">>
LowerChars == <<"a", "b", "c", "d", "e", "f", "g", "h", "i", "j", "k", "l", "m",
                "n", "o", "p", "q", "r", "s", "t", "u", "v", "w", "x", "y", "z">>

IsDigit(c) == \E i \in DOMAIN DigitChars : DigitChars[i] = c
DigitVal(c) == (CHOOSE i \in DOMAIN DigitChars : DigitChars[i] = c) - 1

\* str.lower() on one character
LowerChar(c) ==
    IF \E i \in DOMAIN UpperChars : UpperChars[i] = c
    THEN LowerChars[CHOOSE i \in DOMAIN UpperChars : UpperChars[i] = c]
    ELSE c

\* str.lower()
Lower(s) == [i \in DOMAIN s |-> LowerChar(s[i])]

\* s[1:]
Tail1(s) == IF s = <<>> THEN <<>> ELSE Tail(s)
\* s[:-1]
Front(s) == IF s = <<>> THEN <<>> ELSE SubSeq(s, 1, Len(s) - 1)
\* s.startswith(p)
StartsWith(s, p) == Len(s) >= Len(p) /\ SubSeq(s, 1, Len(p)) = p

(***************************************************************************)
(* int(str): an optional sign, then digits, single underscores allowed     *)
(* between digits.  (The alphabet of the model has no whitespace.)         *)
(***************************************************************************)
HasSign(s) == s # <<>> /\ s[1] \in {"+", "-"}
IntBody(s) == IF HasSign(s) THEN Tail(s) ELSE s

IsIntLiteral(s) ==
    LET b == IntBody(s) IN
    /\ b # <<>>
    /\ IsDigit(b[1])
    /\ IsDigit(b[Len(b)])
    /\ \A i \in DOMAIN b : IsDigit(b[i]) \/ b[i] = "_"
    /\ \A i \in 1..(Len(b) - 1) : ~(b[i] = "_" /\ b[i + 1] = "_")

RECURSIVE DigitsValue(_, _)
DigitsValue(b, acc) ==
    IF b = <<>> THEN acc
    ELSE IF b[1] = "_" THEN DigitsValue(Tail(b), acc)
    ELSE DigitsValue(Tail(b), acc * 10 + DigitVal(b[1]))

\* int(s) for a string that is an integer literal
ParseInt(s) ==
    LET n == DigitsValue(IntBody(s), 0) IN
    IF HasSign(s) /\ s[1] = "-" THEN 0 - n ELSE n

\* Helpers.looks_like_int: int(value) succeeds.  A list or None raises
\* TypeError, which is caught.
looks_like_int(value) ==
    CASE value.t = "int" -> TRUE
      [] value.t = "str" -> IsIntLiteral(value.v)
      [] OTHER -> FALSE

\* int(value) for a value that looks like an int
IntOf(value) == IF value.t = "int" THEN value.v ELSE ParseInt(value.v)

Min(a, b) == IF a < b THEN a ELSE b

\* An operator whose argument is itself the result of a long computation is
\* written CHOOSE result \in {body : x \in {argument}} : TRUE, which is
\* body with x the value of the argument, computed once.

(***************************************************************************)
(* dicts                                                                   *)
(***************************************************************************)
EmptyDict == [k \in {} |-> None]
Has(d, k) == k \in DOMAIN d
Put(d, k, val) == [x \in (DOMAIN d) \cup {k} |-> IF x = k THEN val ELSE d[x]]
\* 'k' in d and d[k] is not None
Present(d, k) == Has(d, k) /\ ~IsNone(d[k])

\* The names the code uses, spelled out as strings.
k_subreddit == <<"s", "u", "b", "r", "e", "d", "d", "i", "t">>
k_author == <<"a", "u", "t", "h", "o", "r">>
k_after == <<"a", "f", "t", "e", "r">>
k_before == <<"b", "e", "f", "o", "r", "e">>
k_score == <<"s", "c", "o", "r", "e">>
k_num_comments == <<"n", "u", "m", "_", "c", "o", "m", "m", "e", "n", "t", "s">>
k_sort_type == <<"s", "o", "r", "t", "_", "t", "y", "p", "e">>
k_limit == <<"l", "i", "m", "i", "t">>
k_size == <<"s", "i", "z", "e">>
k_order == <<"o", "r", "d", "e", "r">>
k_sort == <<"s", "o", "r", "t">>
k_frequency == <<"f", "r", "e", "q", "u", "e", "n", "c", "y">>
k_q == <<"q">>
k_ids == <<"i", "d", "s">>
k_fields == <<"f", "i", "e", "l", "d", "s">>
k_aggs == <<"a", "g", "g", "s">>
k_min_doc_count == <<"m", "i", "n", "_", "d", "o", "c", "_", "c", "o", "u", "n", "t">>
k_title == <<"t", "i", "t", "l", "e">>
k_selftext == <<"s", "e", "l", "f", "t", "e", "x", "t">>
k_created_utc == <<"c", "r", "e", "a", "t", "e", "d", "_", "u", "t", "c">>
k_link_id == <<"l", "i", "n", "k", "_", "i", "d">>
k_body == <<"b", "o", "d", "y">>
k_asc == <<"a", "s", "c">>
k_desc == <<"d", "e", "s", "c">>
k_id == <<"i", "d">>
k_hit_id == <<"_", "i", "d">>
k_parent_id == <<"p", "a", "r", "e", "n", "t", "_", "i", "d">>
k_subreddit_id == <<"s", "u", "b", "r", "e", "d", "d", "i", "t", "_", "i", "d">>
k_permalink == <<"p", "e", "r", "m", "a", "l", "i", "n", "k">>
k_full_link == <<"f", "u", "l", "l", "_", "l", "i", "n", "k">>
k_author_flair_text == <<"a", "u", "t", "h", "o", "r", "_", "f", "l", "a", "i", "r", "_", "t", "e", "x", "t">>
k_author_flair_css_class == <<"a", "u", "t", "h", "o", "r", "_", "f", "l", "a", "i", "r", "_", "c", "s", "s", "_", "c", "l", "a", "s", "s">>
s_t1 == <<"t", "1", "_">>
s_t3 == <<"t", "3", "_">>
s_t5 == <<"t", "5", "_">>
k_domain == <<"d", "o", "m", "a", "i", "n">>
k_time_of_day == <<"t", "i", "m", "e", "_", "o", "f", "_", "d", "a", "y">>
k_hour == <<"h", "o", "u", "r">>
k_name == <<"n", "a", "m", "e">>
k_day == <<"d", "a", "y">>

\* {k.lower(): v for k, v in params.items()}; the input bags hold no two
\* names that differ only in letter case.
LowerKeys(params) ==
    [k \in {Lower(x) : x \in DOMAIN params} |->
        params[CHOOSE x \in DOMAIN params : Lower(x) = k]]

(***************************************************************************)
(* Predicates of the query document.  One shape for all of them:           *)
(*   terms  {"terms": {field: [values]}}        value = PList(values)      *)
(*   range  {"range": {field: {op: n}}}         op in gt, lt               *)
(*   term   {"term": {field: value}}                                       *)
(*   simple_query_string  query = value, fields = [field] unless field is <<>>      *)
(*   empty  {}   an auto-vivified dict nothing was stored in               *)
(***************************************************************************)
TermsPred(field, values) == [kind |-> "terms", field |-> field, op |-> "", value |-> PList(values)]
RangePred(field, op, n) == [kind |-> "range", field |-> field, op |-> op, value |-> PInt(n)]
TermPred(field, val) == [kind |-> "term", field |-> field, op |-> "", value |-> val]
SqsPred(field, query) == [kind |-> "simple_query_string", field |-> field, op |-> "and", value |-> query]
EmptyPred == [kind |-> "empty", field |-> <<>>, op |-> "", value |-> None]

\* The state a stage of process() hands to the next: err is "" or the
\* exception that was raised.
Stage(err, params, filter) == [err |-> err, params |-> params, filter |-> filter]

(***************************************************************************)
(* Parameters._parse_time_value                                            *)
(***************************************************************************)
Now == 100000

TimeUnitSeconds(unit) ==
    CASE unit = "d" -> 86400
      [] unit = "h" -> 3600
      [] unit = "m" -> 60
      [] unit = "s" -> 1
      [] OTHER -> 0

\* TRUE iff _parse_time_value(value) returns (it raises ValueError otherwise)
TimeValueOk(value) ==
    \/ looks_like_int(value)
    \/ /\ IsStr(value)
       /\ Len(value.v) >= 2
       /\ IsIntLiteral(Front(value.v))
       /\ LowerChar(value.v[Len(value.v)]) \in {"d", "h", "m", "s"}

parse_time_value(value) ==
    IF looks_like_int(value) THEN IntOf(value)
    ELSE Now - ParseInt(Front(value.v)) * TimeUnitSeconds(LowerChar(value.v[Len(value.v)]))

(***************************************************************************)
(* Parameters._process_time_range                                          *)
(***************************************************************************)
TimeBound(st0, key, op) ==
    CHOOSE result \in {
        IF st.err # "" THEN st
        ELSE IF Present(st.params, key)
        THEN IF TimeValueOk(st.params[key])
             THEN LET n == parse_time_value(st.params[key]) IN
                  Stage("", Put(st.params, key, PInt(n)),
                        Append(st.filter, RangePred(k_created_utc, op, n)))
             ELSE Stage("ValueError", st.params, st.filter)
        ELSE Stage("", Put(st.params, key, None), st.filter)
        : st \in {st0}} : TRUE

process_time_range(st) == TimeBound(TimeBound(st, k_after, "gt"), k_before, "lt")

(***************************************************************************)
(* Parameters._process_score_filter, _process_comment_count_filter         *)
(***************************************************************************)
CountFilter(st0, key) ==
    CHOOSE result \in {
        IF st.err # "" THEN st
        ELSE IF ~Present(st.params, key) THEN st
        ELSE LET val == st.params[key] IN
             IF ~IsStr(val) THEN Stage("AttributeError", st.params, st.filter)
             ELSE IF StartsWith(val.v, <<"<">>) \/ StartsWith(val.v, <<">">>)
             THEN IF IsIntLiteral(Tail1(val.v))
                  THEN Stage("", st.params,
                             Append(st.filter,
                                    RangePred(key, IF val.v[1] = "<" THEN "lt" ELSE "gt",
                                              ParseInt(Tail1(val.v)))))
                  ELSE Stage("ValueError", st.params, st.filter)
             ELSE IF looks_like_int(val)
             THEN Stage("", st.params, Append(st.filter, TermPred(key, PInt(IntOf(val)))))
             ELSE Stage("", st.params, Append(st.filter, EmptyPred))
        : st \in {st0}} : TRUE

process_score_filter(st) == CountFilter(st, k_score)
process_comment_count_filter(st) == CountFilter(st, k_num_comments)

(***************************************************************************)
(* Parameters._process_boolean_filters                                     *)
(***************************************************************************)
s_true == <<"t", "r", "u", "e">>
s_false == <<"f", "a", "l", "s", "e">>
BooleanFlags == <<<<"o", "v", "e", "r", "_", "1", "8">>,
                  <<"i", "s", "_", "v", "i", "d", "e", "o">>,
                  <<"s", "t", "i", "c", "k", "i", "e", "d">>,
                  <<"s", "p", "o", "i", "l", "e", "r">>,
                  <<"l", "o", "c", "k", "e", "d">>,
                  <<"c", "o", "n", "t", "e", "s", "t", "_", "m", "o", "d", "e">>>>

\* A test that takes "true" and "false" in lower case only, where the code
\* lower-cases the value first
BooleanFilterCaseSensitive(st0, key) ==
    CHOOSE result \in {
        IF st.err # "" THEN st
        ELSE IF ~Present(st.params, key) THEN st
        ELSE LET val == st.params[key] IN
             IF ~IsStr(val) THEN Stage("AttributeError", st.params, st.filter)
             ELSE IF val.v = s_true \/ val.v = <<"1">>
             THEN Stage("", st.params,
                        Append(st.filter, TermPred(key, PStr(s_true))))
             ELSE IF val.v = s_false \/ val.v = <<"0">>
             THEN Stage("", st.params,
                        Append(st.filter, TermPred(key, PStr(s_false))))
             ELSE st
        : st \in {st0}} : TRUE

BooleanFilter(st0, key) ==
    CHOOSE result \in {
        IF st.err # "" THEN st
        ELSE IF ~Present(st.params, key) THEN st
        ELSE LET val == st.params[key] IN
             IF ~IsStr(val) THEN Stage("AttributeError", st.params, st.filter)
             ELSE IF Lower(val.v) = s_true \/ val.v = <<"1">>
             THEN Stage("", st.params,
                        Append(st.filter, TermPred(key, PStr(s_true))))
             ELSE IF Lower(val.v) = s_false \/ val.v = <<"0">>
             THEN Stage("", st.params,
                        Append(st.filter, TermPred(key, PStr(s_false))))
             ELSE st
        : st \in {st0}} : TRUE

RECURSIVE BooleanFiltersFrom(_, _)
BooleanFiltersFrom(st, i) ==
    IF i > Len(BooleanFlags) THEN st
    ELSE BooleanFiltersFrom(BooleanFilter(st, BooleanFlags[i]), i + 1)

process_boolean_filters(st) == BooleanFiltersFrom(st, 1)

(***************************************************************************)
(* The query document: query.bool.filter, query.bool.must_not, size, sort  *)
(* (one field -> direction pair) and aggs.  size is None and sort is <<>>  *)
(* until process() sets them.                                              *)
(***************************************************************************)
NewQuery == [filter |-> <<>>, must_not |-> <<>>, size |-> None, sort |-> <<>>,
             aggs |-> EmptyDict]

\* The filter on subreddit or author of process()
TermsFilter(st0, key) ==
    CHOOSE result \in {
        IF ~Present(st.params, key) THEN st
        ELSE LET raw == st.params[key]
                 asList == IF raw.t = "list" THEN raw.v ELSE <<raw.v>>
                 lowered == [i \in DOMAIN asList |-> Lower(asList[i])]
             IN  Stage("", Put(st.params, key, PList(lowered)),
                       Append(st.filter, TermsPred(key, lowered)))
        : st \in {st0}} : TRUE

\* sort_type: lower-cased, created_utc by default
SetSortType(params0) ==
    CHOOSE result \in {
        IF Present(params, k_sort_type)
        THEN Put(params, k_sort_type, PStr(Lower(params[k_sort_type].v)))
        ELSE Put(params, k_sort_type, PStr(k_created_utc))
        : params \in {params0}} : TRUE

\* A process() that does not know 'limit'
LimitAliasIgnored(params0) == params0

\* 'limit' is an alias of 'size'
LimitAlias(params0) ==
    CHOOSE result \in {
        IF Has(params, k_limit) THEN Put(params, k_size, params[k_limit]) ELSE params
        : params \in {params0}} : TRUE

MaxSize == 500
DefaultSize == 25

\* The size of the query and of the canonical parameters
SizeOf(params) ==
    IF Present(params, k_size) /\ looks_like_int(params[k_size])
    THEN Min(MaxSize, IntOf(params[k_size]))
    ELSE DefaultSize

\* query['size'] = params['size'] = size
SetSize(params0) ==
    CHOOSE result \in {
        Put(params, k_size, PInt(SizeOf(params)))
        : params \in {params0}} : TRUE

\* 'order' is an alias of 'sort'
OrderAlias(params0) ==
    CHOOSE result \in {
        IF Present(params, k_order)
        THEN Put(params, k_sort, PStr(Lower(params[k_order].v)))
        ELSE params
        : params \in {params0}} : TRUE

\* The sort direction: lower-cased, the suggested sort (desc) by default
SortOf(params) ==
    IF Present(params, k_sort) THEN Lower(params[k_sort].v) ELSE k_desc

SetSort(params0) ==
    CHOOSE result \in {
        Put(params, k_sort, PStr(SortOf(params)))
        : params \in {params0}} : TRUE

Frequencies == {<<"s", "e", "c", "o", "n", "d">>, <<"m", "i", "n", "u", "t", "e">>,
                <<"h", "o", "u", "r">>, k_day, <<"w", "e", "e", "k">>,
                <<"m", "o", "n", "t", "h">>}

FrequencyOf(params) ==
    IF Has(params, k_frequency) /\ Lower(params[k_frequency].v) \in Frequencies
    THEN PStr(Lower(params[k_frequency].v))
    ELSE None

SetFrequency(params0) ==
    CHOOSE result \in {
        Put(params, k_frequency, FrequencyOf(params))
        : params \in {params0}} : TRUE

\* x.lower() raises AttributeError on a list or None
LowerRaises(params, key) == Has(params, key) /\ ~IsStr(params[key])

\* The filters of process(): subreddit, author, the time range, score,
\* num_comments, the boolean flags
Filters(params, filter) ==
    process_boolean_filters(
        process_comment_count_filter(
            process_score_filter(
                process_time_range(
                    TermsFilter(TermsFilter(Stage("", LowerKeys(params), filter),
                                            k_subreddit), k_author)))))

\* The exception the part of process() after the filters raises, "" if none
TailErr(params) ==
    IF \/ Present(params, k_sort_type) /\ ~IsStr(params[k_sort_type])
       \/ Present(params, k_order) /\ ~IsStr(params[k_order])
       \/ ~Present(params, k_order) /\ Present(params, k_sort) /\ ~IsStr(params[k_sort])
       \/ LowerRaises(params, k_frequency)
    THEN "AttributeError"
    ELSE ""

(***************************************************************************)
(* Parameters.process(params, query): [err, params, query].  When err is   *)
(* not "" the call raised and params, query are what the caller still      *)
(* holds (its own, unchanged).                                             *)
(***************************************************************************)
\* The parameters after the filters: sort_type, limit, size, order, sort,
\* frequency, in the order of the code
Canonical(params) ==
    SetFrequency(SetSort(OrderAlias(SetSize(LimitAlias(SetSortType(params))))))

process(params, query) ==
    CHOOSE result \in {
        IF st.err # "" \/ TailErr(st.params) # ""
        THEN [err |-> IF st.err # "" THEN st.err ELSE TailErr(st.params),
              params |-> params, query |-> query]
        ELSE CHOOSE ok \in {
                 [err |-> "",
                  params |-> p,
                  query |-> [query EXCEPT !.filter = st.filter,
                                          !.size = p[k_size],
                                          !.sort = <<p[k_sort_type].v, p[k_sort].v>>]]
                 : p \in {Canonical(st.params)}} : TRUE
        : st \in {Filters(params, query.filter)}} : TRUE

(***************************************************************************)
(* Helpers.base36encode, base36decode                                      *)
(***************************************************************************)
Alphabet == DigitChars \o LowerChars

RECURSIVE EncodeLoopAppending(_, _)
\* A loop that puts each new digit after the ones it has, where the code
\* puts it before them
EncodeLoopAppending(number, base36) ==
    IF number = 0 THEN base36
    ELSE EncodeLoopAppending(number \div Len(Alphabet),
                             base36 \o <<Alphabet[(number % Len(Alphabet)) + 1]>>)

RECURSIVE EncodeLoop(_, _)
EncodeLoop(number, base36) ==
    IF number = 0 THEN base36
    ELSE EncodeLoop(number \div Len(Alphabet),
                    <<Alphabet[(number % Len(Alphabet)) + 1]>> \o base36)

\* TRUE iff base36encode(x) returns (it raises TypeError otherwise)
EncodeOk(x) == x.t = "int"

base36encode(number) ==
    LET sign == IF number < 0 THEN <<"-">> ELSE <<>>
        n == IF number < 0 THEN 0 - number ELSE number
    IN  IF n < Len(Alphabet) THEN sign \o <<Alphabet[n + 1]>>
        ELSE sign \o EncodeLoop(n, <<>>)

IsBase36Char(c) == \E i \in DOMAIN Alphabet : Alphabet[i] = LowerChar(c)
Base36Val(c) == (CHOOSE i \in DOMAIN Alphabet : Alphabet[i] = LowerChar(c)) - 1

\* The literals int(s, 36) accepts: as int(s), over the base-36 digits
IsBase36Literal(s) ==
    LET b == IntBody(s) IN
    /\ b # <<>>
    /\ IsBase36Char(b[1])
    /\ IsBase36Char(b[Len(b)])
    /\ \A i \in DOMAIN b : IsBase36Char(b[i]) \/ b[i] = "_"
    /\ \A i \in 1..(Len(b) - 1) : ~(b[i] = "_" /\ b[i + 1] = "_")

RECURSIVE Base36Value(_, _)
Base36Value(b, acc) ==
    IF b = <<>> THEN acc
    ELSE IF b[1] = "_" THEN Base36Value(Tail(b), acc)
    ELSE Base36Value(Tail(b), acc * 36 + Base36Val(b[1]))

\* TRUE iff base36decode(s) returns (it raises ValueError otherwise)
DecodeOk(s) == IsBase36Literal(s)

base36decode(s) ==
    LET n == Base36Value(IntBody(s), 0) IN
    IF HasSign(s) /\ s[1] = "-" THEN 0 - n ELSE n

\* x.lower(), then the prefix cut off when it is there
StripPrefix(s, prefix) ==
    LET l == Lower(s) IN
    IF StartsWith(l, prefix) THEN SubSeq(l, Len(prefix) + 1, Len(l)) ELSE l

(***************************************************************************)
(* CommentSearch._add_aggregations, SubmissionSearch._add_aggregations.    *)
(* An aggregation spec is [kind, field, size, min_doc_count, interval,     *)
(* order]; a part the code does not set is None (order: <<>>).             *)
(***************************************************************************)
s_count == <<"_", "c", "o", "u", "n", "t">>
s_key == <<"_", "k", "e", "y">>
s_keyword(field) == field \o <<".", "k", "e", "y", "w", "o", "r", "d">>

AggSpec(kind, field, size, mdc, interval, order) ==
    [kind |-> kind, field |-> field, size |-> size, min_doc_count |-> mdc,
     interval |-> interval, order |-> order]

TermsCap == 1000
LinkIdCap == 250
TimeOfDayCap == 25

\* not params['aggs']: None, '' and [] are falsy
Falsy(x) == x.t = "none" \/ (x.t \in {"str", "list"} /\ x.v = <<>>)

MinDocCount(params) ==
    IF Present(params, k_min_doc_count) /\ looks_like_int(params[k_min_doc_count])
    THEN params[k_min_doc_count]
    ELSE PInt(0)

\* One turn of the loop over params['aggs']: st is [err, params, aggs]
AddAggregation(st0, agg, handler) ==
    CHOOSE result \in {
        LET a == Lower(agg)
            mdc == MinDocCount(st.params)
        IN  IF st.err # "" THEN st
            ELSE IF a = k_subreddit
            THEN [st EXCEPT !.aggs = Put(@, a, AggSpec("significant_terms", s_keyword(k_subreddit),
                                                        PInt(TermsCap), mdc, None, <<>>))]
            ELSE IF a = k_author
            THEN [st EXCEPT !.aggs = Put(@, a, AggSpec("terms", s_keyword(k_author),
                                                        PInt(TermsCap), None, None, <<s_count, k_desc>>))]
            ELSE IF a = k_created_utc
            THEN IF ~Has(st.params, k_frequency) THEN [st EXCEPT !.err = "KeyError"]
                 ELSE LET p == IF IsNone(st.params[k_frequency])
                               THEN Put(st.params, k_frequency, PStr(k_day))
                               ELSE st.params
                      IN  [st EXCEPT !.params = p,
                                     !.aggs = Put(@, a, AggSpec("date_histogram", k_created_utc, None,
                                                                 None, p[k_frequency], <<s_key, k_asc>>))]
            ELSE IF a = k_link_id /\ handler = "comment"
            THEN [st EXCEPT !.aggs = Put(@, a, AggSpec("terms", k_link_id, PInt(LinkIdCap),
                                                        None, None, <<s_count, k_desc>>))]
            ELSE IF a = k_domain /\ handler = "submission"
            THEN [st EXCEPT !.aggs = Put(@, a, AggSpec("terms", s_keyword(k_domain), PInt(TermsCap),
                                                        None, None, <<s_count, k_desc>>))]
            ELSE IF a = k_time_of_day /\ handler = "submission"
            THEN [st EXCEPT !.aggs = Put(@, a, AggSpec("significant_terms", k_hour,
                                                        PInt(TimeOfDayCap), None, None, <<>>))]
            ELSE st
        : st \in {st0}} : TRUE

RECURSIVE AddAggregationsFrom(_, _, _, _)
AddAggregationsFrom(st, aggs, i, handler) ==
    IF i > Len(aggs) THEN st
    ELSE AddAggregationsFrom(AddAggregation(st, aggs[i], handler), aggs, i + 1, handler)

\* _add_aggregations(q) on the handler's self.params: [err, params, aggs]
add_aggregations(params, handler) ==
    IF ~Has(params, k_aggs) \/ Falsy(params[k_aggs])
    THEN [err |-> "", params |-> params, aggs |-> EmptyDict]
    ELSE LET l == IF IsStr(params[k_aggs]) THEN <<params[k_aggs].v>> ELSE params[k_aggs].v
         IN  AddAggregationsFrom([err |-> "", params |-> Put(params, k_aggs, PList(l)),
                                  aggs |-> EmptyDict], l, 1, handler)

(***************************************************************************)
(* The text predicates of search().  CommentSearch adds q (on body) before *)
(* process(), from the parameters as the request spelled them;             *)
(* SubmissionSearch adds q, title, selftext and the :not conditions after  *)
(* process(), from the canonical parameters.                               *)
(***************************************************************************)
k_title_not == k_title \o <<":", "n", "o", "t">>
k_q_not == k_q \o <<":", "n", "o", "t">>
k_selftext_not == k_selftext \o <<":", "n", "o", "t">>

CommentTextFilter(params) ==
    IF Present(params, k_q) THEN <<SqsPred(k_body, params[k_q])>> ELSE <<>>

SubmissionTextFilter(params) ==
    (IF Present(params, k_q) THEN <<SqsPred(<<>>, params[k_q])>> ELSE <<>>)
    \o (IF Present(params, k_title) THEN <<SqsPred(k_title, params[k_title])>> ELSE <<>>)
    \o (IF Present(params, k_selftext) THEN <<SqsPred(k_selftext, params[k_selftext])>> ELSE <<>>)

SubmissionMustNot(params) ==
    (IF Present(params, k_title_not) THEN <<SqsPred(k_title, params[k_title_not])>> ELSE <<>>)
    \o (IF Present(params, k_q_not) THEN <<SqsPred(<<>>, params[k_q_not])>> ELSE <<>>)
    \o (IF Present(params, k_selftext_not)
        THEN <<SqsPred(k_selftext, params[k_selftext_not])>> ELSE <<>>)

(***************************************************************************)
(* Records.  A hit of the search engine is [id, source]: id is hit["_id"], *)
(* source is hit["_source"], a dict.  A normalisation returns [err, source]*)
(***************************************************************************)
s_reddit == <<"h", "t", "t", "p", "s", ":", "/", "/", "w", "w", "w", ".", "r", "e", "d", "d", "i", "t", ".", "c", "o", "m">>

RECURSIVE HtmlUnescape(_)
\* html.unescape, for the references &amp; &lt; &gt;
HtmlUnescape(s) ==
    IF s = <<>> THEN <<>>
    ELSE IF StartsWith(s, <<"&", "a", "m", "p", ";">>) THEN <<"&">> \o HtmlUnescape(SubSeq(s, 6, Len(s)))
    ELSE IF StartsWith(s, <<"&", "l", "t", ";">>) THEN <<"<">> \o HtmlUnescape(SubSeq(s, 5, Len(s)))
    ELSE IF StartsWith(s, <<"&", "g", "t", ";">>) THEN <<">">> \o HtmlUnescape(SubSeq(s, 5, Len(s)))
    ELSE <<s[1]>> \o HtmlUnescape(Tail(s))

Rec(err, source) == [err |-> err, source |-> source]

\* source[key] = html.unescape(source.get(key, "")) or None
Unescaped(rec0, key) ==
    CHOOSE result \in {
        IF rec.err # "" THEN rec
        ELSE IF ~Has(rec.source, key) THEN Rec("", Put(rec.source, key, None))
        ELSE IF ~IsStr(rec.source[key]) THEN Rec("TypeError", rec.source)
        ELSE LET u == HtmlUnescape(rec.source[key].v) IN
             Rec("", Put(rec.source, key, IF u = <<>> THEN None ELSE PStr(u)))
        : rec \in {rec0}} : TRUE

\* source["id"] = base36encode(int(hit["_id"]))
WithId(hit) ==
    IF looks_like_int(hit.id)
    THEN Rec("", Put(hit.source, k_id, PStr(base36encode(IntOf(hit.id)))))
    ELSE Rec("ValueError", hit.source)

\* source[key] = prefix + base36encode(source[key])
Prefixed(rec0, key, prefix) ==
    CHOOSE result \in {
        IF rec.err # "" THEN rec
        ELSE IF ~Has(rec.source, key) THEN Rec("KeyError", rec.source)
        ELSE IF ~EncodeOk(rec.source[key]) THEN Rec("TypeError", rec.source)
        ELSE Rec("", Put(rec.source, key, PStr(prefix \o base36encode(rec.source[key].v))))
        : rec \in {rec0}} : TRUE

\* CommentSearch.do_elasticsearch, the body of the loop over the hits
\* (before the field filter)
CommentHit(hit) ==
    LET r1 == Prefixed(WithId(hit), k_link_id, s_t3)
        r2 == IF r1.err # "" THEN r1
              ELSE IF Has(r1.source, k_parent_id) THEN Prefixed(r1, k_parent_id, s_t1)
              ELSE Rec("", Put(r1.source, k_parent_id, r1.source[k_link_id]))
        r3 == Prefixed(r2, k_subreddit_id, s_t5)
    IN  Unescaped(Unescaped(r3, k_author_flair_text), k_author_flair_css_class)

\* SubmissionSearch._process_search_results, the body of the loop over the
\* hits (before the field filter)
SubmissionHit(hit) ==
    LET r1 == WithId(hit)
        r2 == IF r1.err # "" THEN r1
              ELSE IF Present(r1.source, k_subreddit_id) /\ EncodeOk(r1.source[k_subreddit_id])
              THEN Prefixed(r1, k_subreddit_id, s_t5)
              ELSE Rec("", Put(r1.source, k_subreddit_id, None))
        r3 == Unescaped(Unescaped(r2, k_author_flair_text), k_author_flair_css_class)
    IN  IF r3.err # "" THEN r3
        ELSE IF Has(r3.source, k_permalink) /\ ~Falsy(r3.source[k_permalink])
        THEN IF IsStr(r3.source[k_permalink])
             THEN Rec("", Put(r3.source, k_full_link,
                              PStr(s_reddit \o r3.source[k_permalink].v)))
             ELSE Rec("TypeError", r3.source)
        ELSE r3

\* The fields list of _apply_field_filter: a str becomes a one-element list,
\* the elements are lower-cased
FieldsList(params) ==
    LET f == params[k_fields]
        l == IF IsStr(f) THEN <<f.v>> ELSE f.v
    IN  [i \in DOMAIN l |-> Lower(l[i])]

\* _apply_field_filter: what it leaves of source
apply_field_filter(source, params) ==
    IF Present(params, k_fields)
    THEN LET fl == FieldsList(params)
             keep == {k \in DOMAIN source : \E i \in DOMAIN fl : fl[i] = Lower(k)}
         IN  [k \in keep |-> source[k]]
    ELSE source

\* _apply_field_filter: what it leaves in self.params
FieldsNormalised(params) ==
    IF Present(params, k_fields) THEN Put(params, k_fields, PList(FieldsList(params)))
    ELSE params

\* The loop over the hits: [err, data], data the records in order.  The loop
\* stops at the first hit that raises.
RECURSIVE HitsFrom(_, _, _, _, _)
HitsFrom(hits, i, acc, params, handler) ==
    IF i > Len(hits) THEN [err |-> "", data |-> acc]
    ELSE LET rec == IF handler = "comment" THEN CommentHit(hits[i]) ELSE SubmissionHit(hits[i])
         IN  IF rec.err # "" THEN [err |-> rec.err, data |-> acc]
             ELSE HitsFrom(hits, i + 1, Append(acc, apply_field_filter(rec.source, params)),
                           params, handler)

\* CommentSearch.get_ids, the body of the loop over the rows
CommentRow(comment) ==
    LET linked == Has(comment, k_link_id) /\ EncodeOk(comment[k_link_id])
        r1 == IF Has(comment, k_id) /\ EncodeOk(comment[k_id])
              THEN Rec("", Put(comment, k_id, PStr(base36encode(comment[k_id].v))))
              ELSE Rec(IF Has(comment, k_id) THEN "TypeError" ELSE "KeyError", comment)
        r2 == IF r1.err # "" THEN r1
              ELSE IF ~Present(r1.source, k_parent_id)
                      \/ (Has(r1.source, k_link_id) /\ r1.source[k_parent_id] = r1.source[k_link_id])
              THEN IF linked
                   THEN Rec("", Put(r1.source, k_parent_id,
                                    PStr(s_t3 \o base36encode(comment[k_link_id].v))))
                   ELSE Rec(IF Has(comment, k_link_id) THEN "TypeError" ELSE "KeyError", r1.source)
              ELSE IF ~Has(r1.source, k_link_id) THEN Rec("KeyError", r1.source)
              ELSE Prefixed(r1, k_parent_id, s_t1)
        r3 == IF r2.err = "" /\ Has(r2.source, k_subreddit_id)
              THEN Prefixed(r2, k_subreddit_id, s_t5) ELSE r2
        r4 == Prefixed(r3, k_link_id, s_t3)
    IN  IF r4.err # "" THEN r4
        ELSE Rec("", [k \in (DOMAIN r4.source) \ {k_name} |-> r4.source[k]])

\* SubmissionSearch.get_ids, the body of the loop over the hits (before the
\* field filter)
SubmissionIdHit(hit) ==
    LET r1 == WithId(hit)
        r2 == IF r1.err = "" /\ Has(r1.source, k_subreddit_id)
              THEN Prefixed(r1, k_subreddit_id, s_t5) ELSE r1
    IN  IF r2.err # "" THEN r2
        ELSE IF ~Has(r2.source, k_permalink) THEN Rec("KeyError", r2.source)
        ELSE IF ~IsStr(r2.source[k_permalink]) THEN Rec("TypeError", r2.source)
        ELSE Rec("", Put(r2.source, k_full_link, PStr(s_reddit \o r2.source[k_permalink].v)))

RECURSIVE RowsFrom(_, _, _)
RowsFrom(rows, i, acc) ==
    IF i > Len(rows) THEN [err |-> "", data |-> acc]
    ELSE LET rec == CommentRow(rows[i]) IN
         IF rec.err # "" THEN [err |-> rec.err, data |-> acc]
         ELSE RowsFrom(rows, i + 1, Append(acc, rec.source))

RECURSIVE IdHitsFrom(_, _, _, _)
IdHitsFrom(hits, i, acc, params) ==
    IF i > Len(hits) THEN [err |-> "", data |-> acc]
    ELSE LET rec == SubmissionIdHit(hits[i]) IN
         IF rec.err # "" THEN [err |-> rec.err, data |-> acc]
         ELSE IdHitsFrom(hits, i + 1, Append(acc, apply_field_filter(rec.source, params)), params)

\* The ids of get_ids: a str becomes a one-element list
IdsList(ids) == IF IsStr(ids) THEN <<ids.v>> ELSE ids.v

\* get_ids: every id lower-cased, its prefix cut off, decoded.  [err, ids]
DecodeIds(ids, prefix) ==
    LET l == IdsList(ids) IN
    IF \A i \in DOMAIN l : DecodeOk(StripPrefix(l[i], prefix))
    THEN [err |-> "", ids |-> [i \in DOMAIN l |-> base36decode(StripPrefix(l[i], prefix))]]
    ELSE [err |-> "ValueError", ids |-> <<>>]

(***************************************************************************)
(* CommentSearch._process_aggregations, the link_id aggregation.  A bucket *)
(* is a dict; submission_data maps an integer id to a submission.          *)
(***************************************************************************)
k_key == <<"k", "e", "y">>
k_doc_count == <<"d", "o", "c", "_", "c", "o", "u", "n", "t">>
k_data == <<"d", "a", "t", "a">>

\* after = 0; if "after" in self.params: after = int(self.params["after"])
\* [err, after]
AfterOf(params) ==
    IF ~Has(params, k_after) THEN [err |-> "", after |-> 0]
    ELSE IF looks_like_int(params[k_after])
    THEN [err |-> "", after |-> IntOf(params[k_after])]
    ELSE [err |-> IF IsStr(params[k_after]) THEN "ValueError" ELSE "TypeError", after |-> 0]

RECURSIVE LinkIdFrom(_, _, _, _, _)
LinkIdFrom(buckets, i, acc, submission_data, after) ==
    IF i > Len(buckets) THEN [err |-> "", buckets |-> acc]
    ELSE LET item == buckets[i]
             key == item[k_key].v
         IN  IF key \in DOMAIN submission_data
                /\ submission_data[key][k_created_utc].v > after
             THEN IF Has(submission_data[key], k_permalink)
                  THEN LET sub == Put(submission_data[key], k_full_link,
                                      PStr(s_reddit \o submission_data[key][k_permalink].v))
                       IN  LinkIdFrom(buckets, i + 1,
                                      Append(acc, Put(item, k_data, [t |-> "dict", v |-> sub])),
                                      submission_data, after)
                  ELSE [err |-> "KeyError", buckets |-> acc]
             ELSE LinkIdFrom(buckets, i + 1, acc, submission_data, after)

\* The link_id part of _process_aggregations, after get_submissions_from_es
\* returned submission_data: [err, buckets]
process_link_id(buckets, submission_data, params) ==
    LET a == AfterOf(params) IN
    IF a.err # "" THEN [err |-> a.err, buckets |-> <<>>]
    ELSE LinkIdFrom(buckets, 1, <<>>, submission_data, a.after)

(***************************************************************************)
(* _process_aggregations, the subreddit aggregation.  A score is a         *)
(* fraction <<numerator, denominator>>; the counts of the model are small   *)
(* enough for the floats of the code to compare as the fractions do.       *)
(***************************************************************************)
k_bg_count == <<"b", "g", "_", "c", "o", "u", "n", "t">>
PFloat(num, den) == [t |-> "float", v |-> <<num, den>>]

\* x < y for two scores
ScoreLess(x, y) ==
    IF x.v[2] = y.v[2] THEN x.v[1] < y.v[1]
    ELSE x.v[1] * y.v[2] < y.v[1] * x.v[2]

\* round(doc_count / bg_count, 5), in units of 0.00001: to the nearest
\* unit, a half to the even one
Places == 100000
Round5(doc_count, bg_count) ==
    LET units == (doc_count * Places) \div bg_count
        rest == (doc_count * Places) % bg_count
    IN  IF 2 * rest > bg_count \/ (2 * rest = bg_count /\ units % 2 = 1)
        THEN units + 1 ELSE units

\* bucket["score"] = bucket["doc_count"] / bucket["bg_count"]; the
\* submission search rounds it to 5 places
ScoreOf(bucket, handler) ==
    IF handler = "comment" THEN PFloat(bucket[k_doc_count].v, bucket[k_bg_count].v)
    ELSE PFloat(Round5(bucket[k_doc_count].v, bucket[k_bg_count].v), Places)

\* The sort without reverse=True: ascending
RECURSIVE InsertByScoreAscending(_, _)
InsertByScoreAscending(sorted, bucket) ==
    IF sorted = <<>> THEN <<bucket>>
    ELSE IF ScoreLess(bucket[k_score], Head(sorted)[k_score])
    THEN <<bucket>> \o sorted
    ELSE <<Head(sorted)>> \o InsertByScoreAscending(Tail(sorted), bucket)

\* sorted(buckets, key=score, reverse=True), one bucket put in its place:
\* before the first bucket of a lower score, so that buckets of one score
\* keep their order
RECURSIVE InsertByScore(_, _)
InsertByScore(sorted, bucket) ==
    IF sorted = <<>> THEN <<bucket>>
    ELSE IF ScoreLess(Head(sorted)[k_score], bucket[k_score])
    THEN <<bucket>> \o sorted
    ELSE <<Head(sorted)>> \o InsertByScore(Tail(sorted), bucket)

RECURSIVE SortedByScore(_, _, _)
SortedByScore(buckets, i, acc) ==
    IF i > Len(buckets) THEN acc
    ELSE SortedByScore(buckets, i + 1, InsertByScore(acc, buckets[i]))

\* The subreddit part of _process_aggregations: [err, buckets]
process_subreddit(buckets, handler) ==
    IF \E i \in DOMAIN buckets : ~Has(buckets[i], k_doc_count) \/ ~Has(buckets[i], k_bg_count)
    THEN [err |-> "KeyError", buckets |-> <<>>]
    ELSE IF \E i \in DOMAIN buckets : buckets[i][k_bg_count].v = 0
    THEN [err |-> "ZeroDivisionError", buckets |-> <<>>]
    ELSE LET scored == [i \in DOMAIN buckets |->
                           Put(buckets[i], k_score, ScoreOf(buckets[i], handler))]
         IN  [err |-> "", buckets |-> SortedByScore(scored, 1, <<>>)]

(***************************************************************************)
(* The state                                                               *)
(***************************************************************************)
VARIABLES
    req,         \* req[r]: the request, [endpoint, params, path]
    pc,          \* pc[r]: where the thread serving r is
    selfParams,  \* selfParams[h]: self.params of the handler object of route h
    q,           \* q[r]: the query document, a local of search()
    calls,       \* calls[r]: the requests.get calls r made, [fn, to, body, ok]
    es,          \* es[r]: json.loads(response.text) of the search
    out,         \* out[r]: the dict the handler builds (data, metadata, aggs)
    subs,        \* subs[r]: submission_data of _process_aggregations
    exc,         \* exc[r]: the exception raised while serving r, "" if none
    resp,        \* resp[r]: the response, [kind, status, body]
    db,          \* pgdb.db: the connection handle all requests share
    retries,     \* retries[r]: the local of PostgreSQLManager.execute
    attempts,    \* attempts[r]: the cur.execute calls of r's execute so far
    rows,        \* rows[r]: what execute returned
    call,        \* the call of a function on its own: [fn, arg]
    ret          \* what that call returned or raised: [done, err, val]

vars == <<req, pc, selfParams, q, calls, es, out, subs, exc, resp, db, retries,
          attempts, rows, call, ret>>

\* The two threads of the request-dispatch layer
Reqs == {1, 2}
Live == DOMAIN req

SearchHandlers == {"comment", "submission"}
Endpoints == SearchHandlers \cup {"user", "comment_ids"}

max_retries == 5
\* attempts[r] counts up to here and stays
AttemptCap == 6

Pending == [kind |-> "pending", status |-> 200, body |-> EmptyDict]
\* resp.body = json.dumps(data, ...): the default status stays
Success(body) == [kind |-> "success", status |-> 200, body |-> body]
\* resp.status = falcon.HTTP_500; resp.body = json.dumps({"error":, "message":})
ErrorEnvelope(error, message) ==
    [kind |-> "error", status |-> 500,
     body |-> ("error" :> error) @@ ("message" :> message)]
\* The exception left on_get: the framework, not the handler, answers
Unhandled(e) == [kind |-> "unhandled", status |-> 500, body |-> ("exception" :> e)]

Call(fn, to, body, ok) == [fn |-> fn, to |-> to, body |-> body, ok |-> ok]

\* raise e in the thread serving r
Raise(r, e) ==
    /\ exc' = [exc EXCEPT ![r] = e]
    /\ pc' = [pc EXCEPT ![r] = "except"]

Goto(r, label) == pc' = [pc EXCEPT ![r] = label]

Handler(r) == req[r].endpoint

\* The thread serving r is at label
At(r, label) == r \in Live /\ pc[r] = label

(***************************************************************************)
(* What the backends answer.  The search engine answers a search with hits *)
(* and, when the query asks for aggregations, their buckets; the           *)
(* relational store answers with rows.                                     *)
(***************************************************************************)
SampleComment ==
    (k_link_id :> PInt(10)) @@ (k_parent_id :> PInt(47)) @@ (k_subreddit_id :> PInt(5))
    @@ (k_author :> PStr(<<"b", "o", "b">>)) @@ (k_body :> PStr(<<"h", "i">>))

SampleSubmission ==
    (k_id :> PInt(10)) @@ (k_subreddit_id :> PInt(5)) @@ (k_author :> PStr(<<"b", "o", "b">>))
    @@ (k_created_utc :> PInt(50)) @@ (k_permalink :> PStr(<<"/", "r", "/", "x">>))

CommentHits == {<<>>, <<[id |-> PStr(<<"1", "0", "0">>), source |-> SampleComment]>>}
SubmissionHits == {<<>>, <<[id |-> PStr(<<"1", "0">>), source |-> SampleSubmission]>>}

SampleBucket == (k_key :> PInt(10)) @@ (k_doc_count :> PInt(2))

\* The buckets of the aggregations the query asks for.  The requests of the
\* model ask for the link_id aggregation or for none.
AggregationsFor(query) ==
    [a \in (DOMAIN query.aggs) \cap {k_link_id} |-> <<SampleBucket>>]

EsBody(hits, query) ==
    [hits |-> hits, aggregations |-> AggregationsFor(query),
     has_aggregations |-> (DOMAIN query.aggs # {}),
     timed_out |-> FALSE, total |-> Len(hits), shards |-> "shards"]

SearchBodies(handler, query) ==
    {EsBody(h, query) : h \in IF handler = "comment" THEN CommentHits ELSE SubmissionHits}

\* get_submissions_from_es: base-10 id -> submission, the id re-encoded
SubmissionDataFor(ids) ==
    {EmptyDict,
     [i \in {ids[j] : j \in DOMAIN ids} |->
         Put(SampleSubmission, k_id, PStr(base36encode(i)))]}

\* The rows of the comment table the id query selects: row[0] is the stored
\* comment, its id the one the requests of the model ask for
CommentRows == {<<>>, <<Put(SampleComment, k_id, PInt(10))>>}
\* The rows of the comment-id query: row[0] is an integer id
CommentIdRows == {<<>>, <<100, 101>>}

(***************************************************************************)
(* The requests.  Spec serves two requests at once, drawn from Requests;   *)
(* SeqSpec serves one request alone, drawn from the wider AllRequests.     *)
(***************************************************************************)
Request(endpoint, params, path) == [endpoint |-> endpoint, params |-> params, path |-> path]

s_py == <<"P", "y">>
s_t1_a == <<"t", "1", "_", "a">>
s_t3_a == <<"T", "3", "_", "a">>

Requests ==
    { Request("comment", (k_subreddit :> PStr(s_py)) @@ (k_size :> PStr(<<"1", "0">>))
                          @@ (k_sort :> PStr(k_asc)), <<>>),
      Request("comment", (k_aggs :> PStr(k_link_id)) @@ (k_after :> PStr(<<"0">>))
                          @@ (k_fields :> PStr(k_author)), <<>>),
      Request("comment", (k_ids :> PStr(s_t1_a)), <<>>),
      Request("submission", (k_q :> PStr(<<"x">>)) @@ (k_fields :> PStr(k_id)), <<>>),
      Request("submission", (k_ids :> PStr(s_t3_a)), <<>>),
      Request("user", EmptyDict, <<"B", "o", "b">>),
      Request("comment_ids", EmptyDict, s_t3_a) }

\* What get_ids looks the ids up with: the tuple of CommentSearch, the
\* query of SubmissionSearch (q["query"]["terms"]["id"], q["size"])
IdsSize == 500
IdsQuery(ids, handler) ==
    [NewQuery EXCEPT !.filter = <<TermsPred(k_id, ids)>>,
                     !.size = IF handler = "submission" THEN PInt(IdsSize) ELSE None]

(***************************************************************************)
(* Init                                                                    *)
(***************************************************************************)
\* No function is called on its own while requests are served
NoCall == [fn |-> "", arg |-> <<>>]
NotReturned == [done |-> FALSE, err |-> "", val |-> <<>>]
Quiet == call = NoCall /\ ret = NotReturned

\* self.params = None until the first on_get, which assigns it before it
\* reads it: the model holds the empty bag for it
InitFor(requests) ==
    /\ req = requests
    /\ pc = [r \in DOMAIN requests |-> "on_get"]
    /\ selfParams = [h \in SearchHandlers |-> EmptyDict]
    /\ q = [r \in DOMAIN requests |-> NewQuery]
    /\ calls = [r \in DOMAIN requests |-> <<>>]
    /\ es = [r \in DOMAIN requests |-> EsBody(<<>>, NewQuery)]
    /\ out = [r \in DOMAIN requests |-> EmptyDict]
    /\ subs = [r \in DOMAIN requests |-> EmptyDict]
    /\ exc = [r \in DOMAIN requests |-> ""]
    /\ resp = [r \in DOMAIN requests |-> Pending]
    /\ db = <<0, 0>>
    /\ retries = [r \in DOMAIN requests |-> 0]
    /\ attempts = [r \in DOMAIN requests |-> 0]
    /\ rows = [r \in DOMAIN requests |-> [done |-> FALSE, err |-> "", rows |-> <<>>]]

Init == \E requests \in [Reqs -> Requests] : InitFor(requests) /\ Quiet

(***************************************************************************)
(* CommentSearch.on_get, SubmissionSearch.on_get                           *)
(***************************************************************************)
\* self.params = req.params
OnGet(r) ==
    /\ At(r, "on_get")
    /\ Handler(r) \in SearchHandlers
    /\ selfParams' = [selfParams EXCEPT ![Handler(r)] = req[r].params]
    /\ Goto(r, "route")
    /\ UNCHANGED <<call, ret, req, q, calls, es, out, subs, exc, resp, db, retries, attempts, rows>>

\* if 'ids' in self.params: self.get_ids(self.params['ids']), as far as its
\* first backend call; else the search
Route(r) ==
    LET h == Handler(r)
        p == selfParams[h]
        d == DecodeIds(p[k_ids], IF h = "comment" THEN s_t1 ELSE s_t3)
    IN  /\ At(r, "route")
        /\ IF ~Has(p, k_ids)
           THEN Goto(r, "search") /\ UNCHANGED <<q, exc, retries>>
           ELSE IF d.err # ""
           THEN Raise(r, d.err) /\ UNCHANGED <<q, retries>>
           ELSE /\ q' = [q EXCEPT ![r] = IdsQuery(d.ids, h)]
                /\ IF h = "comment"
                   THEN Goto(r, "db_query") /\ retries' = [retries EXCEPT ![r] = max_retries]
                   ELSE Goto(r, "ids_primary") /\ UNCHANGED retries
                /\ UNCHANGED exc
        /\ UNCHANGED <<call, ret, req, selfParams, calls, es, out, subs, resp, db, attempts, rows>>

\* search(), as far as self.params, q = process(self.params, q): the
\* comment search puts its text predicate into the query first
Compile(params, handler) ==
    process(params, IF handler = "comment"
                    THEN [NewQuery EXCEPT !.filter = CommentTextFilter(params)]
                    ELSE NewQuery)

\* search(), from process() to _execute_search: the text predicates of the
\* submission search, then _add_aggregations
WithAggs(params, query, handler) ==
    LET a == add_aggregations(params, handler)
        q1 == IF handler = "submission"
              THEN [query EXCEPT !.filter = @ \o SubmissionTextFilter(params),
                                 !.must_not = SubmissionMustNot(params)]
              ELSE query
    IN  [err |-> a.err, params |-> a.params, query |-> [q1 EXCEPT !.aggs = a.aggs]]

Search(r) ==
    LET h == Handler(r)
        p == selfParams[h]
        res == Compile(p, h)
    IN  /\ At(r, "search")
        /\ IF res.err # ""
           THEN Raise(r, res.err) /\ UNCHANGED <<selfParams, q>>
           ELSE /\ selfParams' = [selfParams EXCEPT ![h] = res.params]
                /\ q' = [q EXCEPT ![r] = res.query]
                /\ Goto(r, "add_aggs")
                /\ UNCHANGED exc
        /\ UNCHANGED <<call, ret, req, calls, es, out, subs, resp, db, retries, attempts, rows>>

AddAggs(r) ==
    LET h == Handler(r)
        a == WithAggs(selfParams[h], q[r], h)
    IN  /\ At(r, "add_aggs")
        /\ IF a.err # ""
           THEN Raise(r, a.err) /\ UNCHANGED <<selfParams, q>>
           ELSE /\ selfParams' = [selfParams EXCEPT ![h] = a.params]
                /\ q' = [q EXCEPT ![r] = a.query]
                /\ Goto(r, "primary")
                /\ UNCHANGED exc
        /\ UNCHANGED <<call, ret, req, calls, es, out, subs, resp, db, retries, attempts, rows>>

(***************************************************************************)
(* _execute_search                                                         *)
(***************************************************************************)
\* requests.get(uri, data=json.dumps(q), timeout=30); raise_for_status()
SendPrimary(r) ==
    /\ At(r, "primary")
    /\ \E ok \in BOOLEAN :
        /\ calls' = [calls EXCEPT ![r] = Append(@, Call("_execute_search", "primary", q[r], ok))]
        /\ IF ok
           THEN \E body \in SearchBodies(Handler(r), q[r]) :
                    es' = [es EXCEPT ![r] = body] /\ Goto(r, "metadata")
           ELSE Goto(r, "fallback") /\ UNCHANGED es
    /\ UNCHANGED <<call, ret, req, selfParams, q, out, subs, exc, resp, db, retries, attempts, rows>>

\* A fallback that sends the query without its size: query fallback, where
\* the code retransmits
SendFallbackRequery(r) ==
    /\ At(r, "fallback")
    /\ \E ok \in BOOLEAN :
        /\ calls' = [calls EXCEPT ![r] =
                        Append(@, Call("_execute_search", "fallback",
                                       [q[r] EXCEPT !.size = None], ok))]
        /\ IF ok
           THEN /\ \E body \in SearchBodies(Handler(r), q[r]) : es' = [es EXCEPT ![r] = body]
                /\ Goto(r, "metadata")
                /\ UNCHANGED exc
           ELSE Raise(r, "ElasticsearchError") /\ UNCHANGED es
    /\ UNCHANGED <<call, ret, req, selfParams, q, out, subs, resp, db, retries, attempts, rows>>

\* A fallback that starts over on the primary when it fails, where the code
\* raises
SendFallbackRetry(r) ==
    /\ At(r, "fallback")
    /\ \E ok \in BOOLEAN :
        /\ calls' = [calls EXCEPT ![r] = Append(@, Call("_execute_search", "fallback", q[r], ok))]
        /\ IF ok
           THEN /\ \E body \in SearchBodies(Handler(r), q[r]) : es' = [es EXCEPT ![r] = body]
                /\ Goto(r, "metadata")
           ELSE Goto(r, "primary") /\ UNCHANGED es
    /\ UNCHANGED <<call, ret, req, selfParams, q, out, subs, exc, resp, db, retries, attempts, rows>>

\* except requests.RequestException: the same call on the fallback uri;
\* when it fails too, raise ElasticsearchError
SendFallback(r) ==
    /\ At(r, "fallback")
    /\ \E ok \in BOOLEAN :
        /\ calls' = [calls EXCEPT ![r] = Append(@, Call("_execute_search", "fallback", q[r], ok))]
        /\ IF ok
           THEN /\ \E body \in SearchBodies(Handler(r), q[r]) : es' = [es EXCEPT ![r] = body]
                /\ Goto(r, "metadata")
                /\ UNCHANGED exc
           ELSE Raise(r, "ElasticsearchError") /\ UNCHANGED es
    /\ UNCHANGED <<call, ret, req, selfParams, q, out, subs, resp, db, retries, attempts, rows>>

(***************************************************************************)
(* From the response of the search to the response of the request          *)
(***************************************************************************)
\* search(), after _execute_search: results['metadata'] from self.params
SearchMetadata(params, handler) ==
    (IF handler = "comment" THEN ("size" :> params[k_size]) ELSE EmptyDict)
    @@ ("sort" :> params[k_sort]) @@ ("sort_type" :> params[k_sort_type])
    @@ (IF handler = "comment" /\ Present(params, k_after)
        THEN ("after" :> params[k_after]) ELSE EmptyDict)

SearchResult(r) ==
    LET h == Handler(r)
        p == selfParams[h]
        needed == (IF h = "comment" THEN {k_size} ELSE {}) \cup {k_sort, k_sort_type}
    IN  /\ At(r, "metadata")
        /\ IF needed \subseteq DOMAIN p
           THEN /\ out' = [out EXCEPT ![r] = ("metadata" :> SearchMetadata(p, h))]
                /\ Goto(r, "hits")
                /\ UNCHANGED exc
           ELSE Raise(r, "KeyError") /\ UNCHANGED out
        /\ UNCHANGED <<call, ret, req, selfParams, q, calls, es, subs, resp, db, retries, attempts, rows>>

\* The keys of the link_id buckets: ids of get_submissions_from_es
BucketKeys(buckets) == [i \in DOMAIN buckets |-> buckets[i][k_key].v]

\* The loop over the hits, with _apply_field_filter on each
ProcessHits(r) ==
    LET h == Handler(r)
        p == selfParams[h]
        res == HitsFrom(es[r].hits, 1, <<>>, p, h)
    IN  /\ At(r, "hits")
        /\ IF res.err # ""
           THEN Raise(r, res.err) /\ UNCHANGED <<selfParams, out>>
           ELSE /\ selfParams' = [selfParams EXCEPT ![h] =
                                     IF es[r].hits = <<>> THEN p ELSE FieldsNormalised(p)]
                /\ out' = [out EXCEPT ![r] = @ @@ ("data" :> res.data)]
                /\ Goto(r, IF h = "comment" /\ Has(es[r].aggregations, k_link_id)
                           THEN "lookup_primary" ELSE "finish")
                /\ UNCHANGED exc
        /\ UNCHANGED <<call, ret, req, q, calls, es, subs, resp, db, retries, attempts, rows>>

\* get_submissions_from_es(ids): the primary
LookupPrimary(r) ==
    LET ids == BucketKeys(es[r].aggregations[k_link_id]) IN
    /\ At(r, "lookup_primary")
    /\ \E ok \in BOOLEAN :
        /\ calls' = [calls EXCEPT ![r] =
                        Append(@, Call("get_submissions_from_es", "primary", ids, ok))]
        /\ IF ok
           THEN \E found \in SubmissionDataFor(ids) :
                    subs' = [subs EXCEPT ![r] = found] /\ Goto(r, "link_id")
           ELSE Goto(r, "lookup_fallback") /\ UNCHANGED subs
    /\ UNCHANGED <<call, ret, req, selfParams, q, es, out, exc, resp, db, retries, attempts, rows>>

\* get_submissions_from_es(ids): the fallback; when it fails too, return {}
LookupFallback(r) ==
    LET ids == BucketKeys(es[r].aggregations[k_link_id]) IN
    /\ At(r, "lookup_fallback")
    /\ \E ok \in BOOLEAN :
        /\ calls' = [calls EXCEPT ![r] =
                        Append(@, Call("get_submissions_from_es", "fallback", ids, ok))]
        /\ IF ok
           THEN \E found \in SubmissionDataFor(ids) : subs' = [subs EXCEPT ![r] = found]
           ELSE subs' = [subs EXCEPT ![r] = EmptyDict]
    /\ Goto(r, "link_id")
    /\ UNCHANGED <<call, ret, req, selfParams, q, es, out, exc, resp, db, retries, attempts, rows>>

\* _process_aggregations, the link_id buckets once submission_data is there
LinkId(r) ==
    LET res == process_link_id(es[r].aggregations[k_link_id], subs[r],
                               selfParams[Handler(r)])
    IN  /\ At(r, "link_id")
        /\ IF res.err # ""
           THEN Raise(r, res.err) /\ UNCHANGED out
           ELSE /\ out' = [out EXCEPT ![r] = @ @@ ("aggs" :> (k_link_id :> res.buckets))]
                /\ Goto(r, "finish")
                /\ UNCHANGED exc
        /\ UNCHANGED <<call, ret, req, selfParams, q, calls, es, subs, resp, db, retries, attempts, rows>>

\* What on_get adds to the metadata
Timing == ("execution_time_milliseconds" :> "ms") @@ ("version" :> "v3.0")

\* The end of do_elasticsearch / _process_search_results and of on_get:
\* data["aggs"] when the response holds aggregations, the metadata, resp.body
Finish(r) ==
    LET metadata == ("results_returned" :> Len(es[r].hits))
                    @@ ("timed_out" :> es[r].timed_out)
                    @@ ("total_results" :> es[r].total)
                    @@ ("shards" :> es[r].shards)
                    @@ Timing @@ out[r]["metadata"]
        aggs == IF es[r].has_aggregations /\ ~Has(out[r], "aggs")
                THEN ("aggs" :> EmptyDict) ELSE EmptyDict
    IN  /\ At(r, "finish")
        /\ resp' = [resp EXCEPT ![r] =
                       Success(("metadata" :> metadata) @@ out[r] @@ aggs)]
        /\ Goto(r, "done")
        /\ UNCHANGED <<call, ret, req, selfParams, q, calls, es, out, subs, exc, db, retries, attempts,
                       rows>>

\* except Exception as e: resp.status = falcon.HTTP_500, the error envelope
Except(r) ==
    /\ At(r, "except")
    /\ Handler(r) \in SearchHandlers
    /\ resp' = [resp EXCEPT ![r] = ErrorEnvelope("Internal server error", exc[r])]
    /\ Goto(r, "done")
    /\ UNCHANGED <<call, ret, req, selfParams, q, calls, es, out, subs, exc, db, retries, attempts, rows>>

(***************************************************************************)
(* SubmissionSearch.get_ids: one call, on the primary                      *)
(***************************************************************************)
\* A get_ids that fails over as _execute_search does
IdsPrimaryWithFallback(r) ==
    /\ At(r, "ids_primary")
    /\ \E ok \in BOOLEAN :
        /\ calls' = [calls EXCEPT ![r] = Append(@, Call("get_ids", "primary", q[r], ok))]
        /\ IF ok
           THEN /\ \E h \in SubmissionHits : es' = [es EXCEPT ![r] = EsBody(h, q[r])]
                /\ Goto(r, "ids_hits")
           ELSE Goto(r, "fallback") /\ UNCHANGED es
    /\ UNCHANGED <<call, ret, req, selfParams, q, out, subs, exc, resp, db, retries, attempts, rows>>

IdsPrimary(r) ==
    /\ At(r, "ids_primary")
    /\ \E ok \in BOOLEAN :
        /\ calls' = [calls EXCEPT ![r] = Append(@, Call("get_ids", "primary", q[r], ok))]
        /\ IF ok
           THEN /\ \E h \in SubmissionHits : es' = [es EXCEPT ![r] = EsBody(h, q[r])]
                /\ Goto(r, "ids_hits")
                /\ UNCHANGED exc
           ELSE Raise(r, "ElasticsearchError") /\ UNCHANGED es
    /\ UNCHANGED <<call, ret, req, selfParams, q, out, subs, resp, db, retries, attempts, rows>>

\* The loop over the hits of get_ids, then on_get's metadata and resp.body
IdsHits(r) ==
    LET h == Handler(r)
        p == selfParams[h]
        res == IdHitsFrom(es[r].hits, 1, <<>>, p)
    IN  /\ At(r, "ids_hits")
        /\ IF res.err # ""
           THEN Raise(r, res.err) /\ UNCHANGED <<selfParams, resp>>
           ELSE /\ selfParams' = [selfParams EXCEPT ![h] =
                                     IF es[r].hits = <<>> THEN p ELSE FieldsNormalised(p)]
                /\ resp' = [resp EXCEPT ![r] =
                               Success(("data" :> res.data) @@ ("metadata" :> Timing))]
                /\ Goto(r, "done")
                /\ UNCHANGED exc
        /\ UNCHANGED <<call, ret, req, q, calls, es, out, subs, db, retries, attempts, rows>>

(***************************************************************************)
(* PostgreSQLManager.execute, called by CommentSearch.get_ids and by       *)
(* CommentIDsGetter.on_get; both turn whatever it raises into APIError.    *)
(***************************************************************************)
QueryOutcomes == {"rows", "OperationalError", "DatabaseError", "Exception"}

Returned(rs) == [done |-> TRUE, err |-> "", rows |-> rs]
Raised(e) == [done |-> TRUE, err |-> e, rows |-> <<>>]

RowsFor(r) == IF Handler(r) = "comment" THEN CommentRows ELSE CommentIdRows

\* A loop that forgets to count the failure, where the code decrements
NotDecremented(n) == n

\* retries -= 1
Decremented(n) == n - 1

\* An execute that reconnects before it re-raises an error that is not
\* operational
DbQueryReconnecting(r) ==
    /\ At(r, "db_query")
    /\ retries[r] > 0
    /\ attempts' = [attempts EXCEPT ![r] = Min(@ + 1, AttemptCap)]
    /\ \E outcome \in QueryOutcomes :
        CASE outcome = "rows" ->
                /\ \E rs \in RowsFor(r) : rows' = [rows EXCEPT ![r] = Returned(rs)]
                /\ Goto(r, "db_rows")
                /\ UNCHANGED <<retries, exc, db>>
          [] outcome = "OperationalError" ->
                /\ retries' = [retries EXCEPT ![r] = Decremented(@)]
                /\ IF retries'[r] <= 0
                   THEN /\ rows' = [rows EXCEPT ![r] = Raised("DatabaseError: retries")]
                        /\ Raise(r, "APIError")
                   ELSE Goto(r, "db_reconnect") /\ UNCHANGED <<rows, exc>>
                /\ UNCHANGED db
          [] OTHER ->
                /\ rows' = [rows EXCEPT ![r] = Raised(outcome)]
                /\ Raise(r, "APIError")
                /\ db' = <<r, attempts'[r]>>
                /\ UNCHANGED retries
    /\ UNCHANGED <<call, ret, req, selfParams, q, calls, es, out, subs, resp>>

\* One turn of while retries > 0: cur.execute, cur.fetchall and the except
\* clauses, as far as time.sleep
DbQuery(r) ==
    /\ At(r, "db_query")
    /\ retries[r] > 0
    /\ attempts' = [attempts EXCEPT ![r] = Min(@ + 1, AttemptCap)]
    /\ \E outcome \in QueryOutcomes :
        CASE outcome = "rows" ->
                /\ \E rs \in RowsFor(r) : rows' = [rows EXCEPT ![r] = Returned(rs)]
                /\ Goto(r, "db_rows")
                /\ UNCHANGED <<retries, exc>>
          [] outcome = "OperationalError" ->
                /\ retries' = [retries EXCEPT ![r] = Decremented(@)]
                /\ IF retries'[r] <= 0
                   THEN /\ rows' = [rows EXCEPT ![r] = Raised("DatabaseError: retries")]
                        /\ Raise(r, "APIError")
                   ELSE Goto(r, "db_reconnect") /\ UNCHANGED <<rows, exc>>
          [] OTHER ->
                /\ rows' = [rows EXCEPT ![r] = Raised(outcome)]
                /\ Raise(r, "APIError")
                /\ UNCHANGED retries
    /\ UNCHANGED <<call, ret, req, selfParams, q, calls, es, out, subs, resp, db>>

\* A manager that keeps one retry budget for all calls and refills it when
\* it reconnects
DbReconnectRefilling(r) ==
    /\ At(r, "db_reconnect")
    /\ \E ok \in BOOLEAN :
        IF ok
        THEN /\ db' = <<r, attempts[r]>>
             /\ retries' = [s \in DOMAIN retries |-> max_retries]
             /\ Goto(r, "db_query")
             /\ UNCHANGED <<rows, exc>>
        ELSE /\ rows' = [rows EXCEPT ![r] = Raised("OperationalError")]
             /\ Raise(r, "APIError")
             /\ UNCHANGED <<db, retries>>
    /\ UNCHANGED <<call, ret, req, selfParams, q, calls, es, out, subs, resp, attempts>>

\* time.sleep(self.retry_delay); self.connect(): a new handle, or connect
\* raises OperationalError, which leaves execute
DbReconnect(r) ==
    /\ At(r, "db_reconnect")
    /\ \E ok \in BOOLEAN :
        IF ok
        THEN /\ db' = <<r, attempts[r]>>
             /\ Goto(r, "db_query")
             /\ UNCHANGED <<rows, exc>>
        ELSE /\ rows' = [rows EXCEPT ![r] = Raised("OperationalError")]
             /\ Raise(r, "APIError")
             /\ UNCHANGED db
    /\ UNCHANGED <<call, ret, req, selfParams, q, calls, es, out, subs, resp, retries, attempts>>

\* CommentSearch.get_ids, the loop over the rows, then on_get's metadata
\* and resp.body
CommentRowsDone(r) ==
    LET res == RowsFrom(rows[r].rows, 1, <<>>) IN
    /\ At(r, "db_rows")
    /\ Handler(r) = "comment"
    /\ IF res.err # ""
       THEN Raise(r, res.err) /\ UNCHANGED resp
       ELSE /\ resp' = [resp EXCEPT ![r] =
                           Success(("data" :> res.data) @@ ("metadata" :> Timing))]
            /\ Goto(r, "done")
            /\ UNCHANGED exc
    /\ UNCHANGED <<call, ret, req, selfParams, q, calls, es, out, subs, db, retries, attempts, rows>>

(***************************************************************************)
(* CommentIDsGetter.on_get                                                 *)
(***************************************************************************)
\* submission_id = base36decode(...), outside any try; then execute
CommentIdsOnGet(r) ==
    LET id == StripPrefix(req[r].path, s_t3) IN
    /\ At(r, "on_get")
    /\ Handler(r) = "comment_ids"
    /\ IF DecodeOk(id)
       THEN /\ q' = [q EXCEPT ![r] = IdsQuery(<<base36decode(id)>>, "comment_ids")]
            /\ retries' = [retries EXCEPT ![r] = max_retries]
            /\ Goto(r, "db_query")
            /\ UNCHANGED exc
       ELSE Raise(r, "ValueError") /\ UNCHANGED <<q, retries>>
    /\ UNCHANGED <<call, ret, req, selfParams, calls, es, out, subs, resp, db, attempts, rows>>

\* results.append(base36encode(comment_id)); data = {"data": results}
CommentIdsRowsDone(r) ==
    LET ids == rows[r].rows IN
    /\ At(r, "db_rows")
    /\ Handler(r) = "comment_ids"
    /\ resp' = [resp EXCEPT ![r] =
                   Success(("data" :> [i \in DOMAIN ids |-> base36encode(ids[i])]))]
    /\ Goto(r, "done")
    /\ UNCHANGED <<call, ret, req, selfParams, q, calls, es, out, subs, exc, db, retries, attempts, rows>>

\* No except clause of the handler catches the exception: it leaves on_get
Escape(r) ==
    /\ At(r, "except")
    /\ Handler(r) \notin SearchHandlers
    /\ resp' = [resp EXCEPT ![r] = Unhandled(exc[r])]
    /\ Goto(r, "done")
    /\ UNCHANGED <<call, ret, req, selfParams, q, calls, es, out, subs, exc, db, retries, attempts, rows>>

(***************************************************************************)
(* UserAnalyzer.on_get                                                     *)
(***************************************************************************)
UserSize == 2500
UserLinkIdCap == 25

\* The fixed query: the author filter, the sort and the three aggregations
UserQuery(author) ==
    [filter |-> <<TermsPred(k_author, <<Lower(author)>>)>>,
     must_not |-> <<>>,
     size |-> PInt(UserSize),
     sort |-> <<k_created_utc, k_desc>>,
     aggs |-> (k_created_utc :> AggSpec("date_histogram", k_created_utc, None, None,
                                        PStr(k_day), <<s_key, k_asc>>))
              @@ (k_subreddit :> AggSpec("terms", s_keyword(k_subreddit), PInt(UserSize),
                                         None, None, <<s_count, k_desc>>))
              @@ (k_link_id :> AggSpec("terms", k_link_id, PInt(UserLinkIdCap),
                                       None, None, <<s_count, k_desc>>))]

\* bucket['key'] = 't3_' + base36encode(bucket['key']) on the link_id buckets
UserBuckets(buckets) ==
    [i \in DOMAIN buckets |->
        Put(buckets[i], k_key, PStr(s_t3 \o base36encode(buckets[i][k_key].v)))]

UserBody(body) ==
    ("data" :> [body EXCEPT !.aggregations =
                    [a \in DOMAIN @ |-> IF a = k_link_id THEN UserBuckets(@[a]) ELSE @[a]]])
    @@ ("metadata" :> Timing)

UserPrimary(r) ==
    LET uq == UserQuery(req[r].path) IN
    /\ At(r, "on_get")
    /\ Handler(r) = "user"
    /\ q' = [q EXCEPT ![r] = uq]
    /\ \E ok \in BOOLEAN :
        /\ calls' = [calls EXCEPT ![r] = Append(@, Call("on_get", "primary", uq, ok))]
        /\ IF ok
           THEN \E h \in CommentHits :
                    /\ es' = [es EXCEPT ![r] = EsBody(h, uq)]
                    /\ resp' = [resp EXCEPT ![r] = Success(UserBody(es'[r]))]
                    /\ Goto(r, "done")
           ELSE Goto(r, "user_fallback") /\ UNCHANGED <<es, resp>>
    /\ UNCHANGED <<call, ret, req, selfParams, out, subs, exc, db, retries, attempts, rows>>

UserFallback(r) ==
    /\ At(r, "user_fallback")
    /\ \E ok \in BOOLEAN :
        /\ calls' = [calls EXCEPT ![r] = Append(@, Call("on_get", "fallback", q[r], ok))]
        /\ IF ok
           THEN \E h \in CommentHits :
                    /\ es' = [es EXCEPT ![r] = EsBody(h, q[r])]
                    /\ resp' = [resp EXCEPT ![r] = Success(UserBody(es'[r]))]
           ELSE /\ resp' = [resp EXCEPT ![r] =
                               ErrorEnvelope("Failed to analyze user", "RequestException")]
                /\ UNCHANGED es
    /\ Goto(r, "done")
    /\ UNCHANGED <<call, ret, req, selfParams, q, out, subs, exc, db, retries, attempts, rows>>

(***************************************************************************)
(* The specifications                                                      *)
(***************************************************************************)
Next ==
    \E r \in Reqs :
        \/ OnGet(r)
        \/ Route(r)
        \/ Search(r)
        \/ AddAggs(r)
        \/ SendPrimary(r)
        \/ SendFallback(r)
        \/ SearchResult(r)
        \/ ProcessHits(r)
        \/ LookupPrimary(r)
        \/ LookupFallback(r)
        \/ LinkId(r)
        \/ Finish(r)
        \/ Except(r)
        \/ IdsPrimary(r)
        \/ IdsHits(r)
        \/ DbQuery(r)
        \/ DbReconnect(r)
        \/ CommentRowsDone(r)
        \/ CommentIdsOnGet(r)
        \/ CommentIdsRowsDone(r)
        \/ Escape(r)
        \/ UserPrimary(r)
        \/ UserFallback(r)

Spec == Init /\ [][Next]_vars

(***************************************************************************)
(* SeqSpec: one request, served alone, over a wider set of parameter bags. *)
(***************************************************************************)
SizeValues == {<<"1", "0">>, <<"0">>, <<"-", "3">>, <<"5", "0", "0">>, <<"5", "0", "1">>, <<"a", "b", "c">>, <<>>}
SortValues == {<<"a", "s", "c">>, <<"D", "E", "S", "C">>, <<"F", "o", "o">>}
AfterValues == {<<"1", "0", "0">>, <<"1", "d">>, <<"2", "H">>, <<"a", "b", "c">>, <<"5", "x">>, <<"d">>}
BeforeValues == {<<"7">>, <<"3", "m">>, <<"x", "1">>}
ScoreValues == {<<"<", "5">>, <<">", "5">>, <<"5">>, <<"-", "5">>, <<"a", "b", "c">>, <<"<", "a", "b", "c">>, <<"<">>}
NumCommentsValues == {<<">", "2">>, <<"a", "b", "c">>, <<"<", "x">>}

\* No entry, or one entry under one of the keys with one of the values
Optional(keys, values) == {EmptyDict} \cup {k :> PStr(v) : k \in keys, v \in values}

SizeSortBags ==
    {a @@ b @@ c : a \in Optional({k_size, <<"S", "i", "z", "e">>}, SizeValues),
                   b \in Optional({k_limit}, {<<"7">>, <<"x">>}),
                   c \in Optional({k_sort, k_order}, SortValues)}

FilterBags ==
    {a @@ b @@ c @@ d : a \in Optional({k_after}, AfterValues),
                        b \in Optional({k_before}, BeforeValues),
                        c \in Optional({k_score}, ScoreValues),
                        d \in Optional({k_num_comments}, NumCommentsValues)}

\* Requests with a fields allow-list, by id and by search
FieldsRequests ==
    {Request("comment", (k_ids :> PStr(s_t1_a)) @@ (k_fields :> PStr(k_author)), <<>>),
     Request("submission", (k_ids :> PStr(s_t3_a)) @@ (k_fields :> PStr(k_author)), <<>>),
     Request("comment", (k_fields :> PStr(<<"A", "u", "t", "h", "o", "r">>)), <<>>),
     Request("submission", (k_fields :> PList(<<k_author, <<"I", "D">>>>)), <<>>)}

AllRequests ==
    Requests \cup FieldsRequests
    \cup {Request(h, b, <<>>) : h \in SearchHandlers, b \in SizeSortBags \cup FilterBags}
    \cup {Request("comment_ids", EmptyDict, <<"t", "3", "_", "!">>)}

SeqInit == \E rq \in AllRequests : InitFor(1 :> rq) /\ Quiet

\* A thread that can take a step takes it: every call the handlers make
\* returns or raises (the calls on the search engine have a timeout).
SeqSpec == SeqInit /\ [][Next]_vars /\ WF_vars(Next)

(***************************************************************************)
(* Properties of _execute_search                                           *)
(***************************************************************************)
IsSearchCall(c) == c.fn = "_execute_search"
\* The calls one search execution has made so far, in order
SearchCalls(r) == SelectSeq(calls[r], IsSearchCall)

\* C1: in one search execution the primary is sent the query first; the
\* fallback is sent it exactly once when the primary attempt failed and not
\* at all when it succeeded, and the body sent to the fallback is the body
\* that was sent to the primary.
C1_FailoverIsRetransmission ==
    \A r \in Live :
        LET S == SearchCalls(r) IN
        /\ Len(S) <= 2
        /\ Len(S) >= 1 => S[1].to = "primary"
        /\ Len(S) = 2 => S[2].to = "fallback" /\ ~S[1].ok /\ S[2].body = S[1].body
        /\ (Len(S) >= 1 /\ pc[r] # "fallback") => (Len(S) = 2 <=> ~S[1].ok)

\* A request whose primary attempt failed was answered from the fallback,
\* which got the compiled query, filter and size included
C1_Witness ==
    \E r \in Live :
        LET S == SearchCalls(r) IN
        /\ pc[r] = "done"
        /\ Len(S) = 2 /\ ~S[1].ok /\ S[2].ok
        /\ S[2].body.filter # <<>> /\ S[2].body.size = PInt(10)
        /\ resp[r].kind = "success"

\* C2: when both attempts of a search execution fail, the execution has made
\* exactly two attempts and no other backend call, it raises
\* ElasticsearchError, and the request ends with status 500 and the error
\* envelope.
C2_BothFailedIsTerminal ==
    \A r \in Live :
        LET S == SearchCalls(r) IN
        (Len(S) >= 2 /\ ~S[1].ok /\ ~S[2].ok) =>
            /\ Len(S) = 2
            /\ calls[r] = S
            /\ exc[r] = "ElasticsearchError"
            /\ pc[r] \in {"except", "done"}
            /\ pc[r] = "done" =>
                  /\ resp[r].kind = "error"
                  /\ resp[r].status = 500
                  /\ DOMAIN resp[r].body = {"error", "message"}
                  /\ resp[r].body["message"] = "ElasticsearchError"

\* Both attempts failed and the request has been answered
C2_Witness ==
    \E r \in Live :
        LET S == SearchCalls(r) IN
        /\ Len(S) = 2 /\ ~S[1].ok /\ ~S[2].ok
        /\ pc[r] = "done"
        /\ resp[r].status = 500

(***************************************************************************)
(* Properties of the handlers                                              *)
(***************************************************************************)
\* What a search request produces when nothing else touches its handler:
\* the compiled query and the canonical parameters
Alone(rq) ==
    CHOOSE result \in {
        IF c.err # "" THEN c ELSE WithAggs(c.params, c.query, rq.endpoint)
        : c \in {Compile(rq.params, rq.endpoint)}} : TRUE

\* r asks for a search and not for ids
IsSearch(r) == Handler(r) \in SearchHandlers /\ ~Has(req[r].params, k_ids)

\* C3: for every interleaving of two requests on one handler object, the
\* query compiled for a request, its response metadata and its field
\* projection are what the request produces alone, from its own parameters.
C3_RequestsIndependent ==
    \A r \in Live :
        IsSearch(r) =>
            /\ pc[r] \in {"primary", "fallback", "metadata"} => q[r] = Alone(req[r]).query
            /\ pc[r] = "hits" =>
                  out[r]["metadata"] = SearchMetadata(Alone(req[r]).params, Handler(r))
            /\ pc[r] = "finish" =>
                  out[r]["data"] = HitsFrom(es[r].hits, 1, <<>>, Alone(req[r]).params,
                                            Handler(r)).data

\* A call on a backend failed for good while r was served: a search or a
\* lookup on the fallback, the one call of get_ids, or execute raising
BackendFailed(r) ==
    \/ \E i \in DOMAIN calls[r] :
          /\ ~calls[r][i].ok
          /\ calls[r][i].to = "fallback" \/ calls[r][i].fn = "get_ids"
    \/ rows[r].err # ""

\* C5: a request during which a backend call failed for good never ends
\* with a success response.
C5_NoPartialResponses ==
    \A r \in Live :
        (pc[r] = "done" /\ BackendFailed(r)) => resp[r].kind # "success"

\* C6: every request that does not end with a success response ends with
\* status 500 and a body with exactly the keys error and message.
C6_FailuresAreEnveloped ==
    \A r \in Live :
        (pc[r] = "done" /\ resp[r].kind # "success") =>
            /\ resp[r].kind = "error"
            /\ resp[r].status = 500
            /\ DOMAIN resp[r].body = {"error", "message"}

(***************************************************************************)
(* Properties of process(), for a request served alone                     *)
(***************************************************************************)
\* The parameter the request gave under a name, in any case; None without
Given(r, key) ==
    LET p == LowerKeys(req[r].params) IN IF Has(p, key) THEN p[key] ELSE None

\* process() has returned and its results are in place
Processed(r) == Handler(r) \in SearchHandlers /\ pc[r] = "add_aggs"

\* The predicates on a field in the filter list of the compiled query
PredicatesOn(r, field) ==
    {i \in DOMAIN q[r].filter : q[r].filter[i].field = field}

\* An integer, or an integer and one of the units s, m, h, d
WellFormedTime(v) ==
    \/ IsIntLiteral(v)
    \/ /\ Len(v) >= 2
       /\ IsIntLiteral(Front(v))
       /\ LowerChar(v[Len(v)]) \in {"s", "m", "h", "d"}

\* after or before is given and malformed
MalformedTime(r) ==
    \E key \in {k_after, k_before} :
        IsStr(Given(r, key)) /\ ~WellFormedTime(Given(r, key).v)

\* C7: a request with a malformed after or before proceeds: it raises no
\* ValueError, its compiled query has a created_utc range predicate for
\* the well-formed time parameters only, and unless a backend fails it ends
\* with a success response.
C7_MalformedTimeDropped ==
    \A r \in Live :
        (Handler(r) \in SearchHandlers /\ MalformedTime(r)) =>
            /\ exc[r] # "ValueError"
            /\ Processed(r) =>
                  \A key \in {k_after, k_before} :
                      (\E i \in PredicatesOn(r, k_created_utc) :
                            q[r].filter[i].op = (IF key = k_after THEN "gt" ELSE "lt"))
                      <=> (IsStr(Given(r, key)) /\ WellFormedTime(Given(r, key).v))
            /\ (pc[r] = "done" /\ ~BackendFailed(r)) => resp[r].kind = "success"

\* What the request gave as size: limit when it is there, else size
SizeInput(r) == IF IsNone(Given(r, k_limit)) THEN Given(r, k_size) ELSE Given(r, k_limit)

Max(a, b) == IF a > b THEN a ELSE b

\* max(1, min(500, n)) for a numeric input n, else 25
ClampedSize(v) ==
    IF IsStr(v) /\ IsIntLiteral(v.v) THEN Max(1, Min(500, ParseInt(v.v))) ELSE 25

\* C8: the size of the compiled query and the canonical size parameter are
\* max(1, min(500, n)) for a numeric size (or limit) n and 25 otherwise, so
\* always in 1..500.
C8_SizeClamped ==
    \A r \in Live :
        Processed(r) =>
            /\ q[r].size = PInt(ClampedSize(SizeInput(r)))
            /\ selfParams[Handler(r)][k_size] = PInt(ClampedSize(SizeInput(r)))
            /\ q[r].size.v \in 1..500

\* C9: the sort direction of the canonical parameters and of the sort clause
\* of the compiled query is asc or desc, and desc when the request gave
\* neither sort nor order.
C9_SortDirectionValid ==
    \A r \in Live :
        Processed(r) =>
            /\ q[r].sort[2] \in {k_asc, k_desc}
            /\ selfParams[Handler(r)][k_sort] \in {PStr(k_asc), PStr(k_desc)}
            /\ (IsNone(Given(r, k_sort)) /\ IsNone(Given(r, k_order))) => q[r].sort[2] = k_desc

\* <N, >N or N, with N an integer
WellFormedCount(v) ==
    \/ v # <<>> /\ v[1] \in {"<", ">"} /\ IsIntLiteral(Tail(v))
    \/ IsIntLiteral(v)

\* range lt, range gt or term equality
CountPredicate(key, v) ==
    IF v[1] = "<" THEN RangePred(key, "lt", ParseInt(Tail(v)))
    ELSE IF v[1] = ">" THEN RangePred(key, "gt", ParseInt(Tail(v)))
    ELSE TermPred(key, PInt(ParseInt(v)))

\* C10: a score or num_comments of the form <N, >N or N adds exactly one
\* predicate, the range or term predicate of its form; any other value adds
\* no predicate, empty ones included, and raises no ValueError.
C10_CountFilters ==
    \A r \in Live :
        Handler(r) \in SearchHandlers =>
            /\ \A key \in {k_score, k_num_comments} :
                  IsStr(Given(r, key)) =>
                      IF WellFormedCount(Given(r, key).v)
                      THEN Processed(r) =>
                              /\ Cardinality(PredicatesOn(r, key)) = 1
                              /\ \A i \in PredicatesOn(r, key) :
                                    q[r].filter[i] = CountPredicate(key, Given(r, key).v)
                      ELSE /\ exc[r] # "ValueError" \/ MalformedTime(r)
                           /\ Processed(r) => PredicatesOn(r, key) = {}
            /\ Processed(r) => \A i \in DOMAIN q[r].filter : q[r].filter[i] # EmptyPred

(***************************************************************************)
(* Properties of PostgreSQLManager.execute                                 *)
(***************************************************************************)
\* r is inside a call of execute
InExecute(r) == r \in Live /\ pc[r] \in {"db_query", "db_reconnect"}

\* C4: a call of execute makes at most max_retries query attempts, and
\* every call ends: it returns rows or raises.
C4_ExecuteTerminates ==
    /\ [](\A r \in Live : attempts[r] <= max_retries)
    /\ \A r \in Reqs : InExecute(r) ~> (r \in Live /\ rows[r].done)

\* A call of execute made max_retries query attempts, with a reconnection
\* between them, and then raised
C4_Witness ==
    \E r \in Live :
        /\ attempts[r] = max_retries
        /\ rows[r].done /\ rows[r].err = "DatabaseError: retries"
        /\ db = <<r, max_retries - 1>>

(***************************************************************************)
(* FnSpec: one function of the program called on its own, on an argument   *)
(* drawn from a bounded set.  No request is served meanwhile.               *)
(***************************************************************************)
served == <<req, pc, selfParams, q, calls, es, out, subs, exc, resp, db, retries,
            attempts, rows>>

Returns(val) == [done |-> TRUE, err |-> "", val |-> val]
Raises(e) == [done |-> TRUE, err |-> e, val |-> <<>>]

\* The call of fn is under way
Called(fn) == call.fn = fn /\ ~ret.done
\* The call of fn has returned or raised
Ended(fn) == call.fn = fn /\ ret.done

\* The integers the codec is called on are -MaxNumber..MaxNumber, the
\* strings have up to MaxLen characters
MaxNumber == 1500
MaxLen == 3

\* Characters of the alphabet 0-9a-z and others
CodecChars == {"0", "1", "a", "z", "A", "-", "_", "!"}
StringsOver(chars, n) == UNION {[1..k -> chars] : k \in 0..n}

EncodeArgs == {PInt(n) : n \in (0 - MaxNumber)..MaxNumber} \cup {PStr(<<"a">>), None}
DecodeArgs == StringsOver(CodecChars, MaxLen)

\* base36encode(number)
CallEncode ==
    /\ Called("base36encode")
    /\ ret' = IF EncodeOk(call.arg) THEN Returns(base36encode(call.arg.v))
              ELSE Raises("TypeError")
    /\ UNCHANGED <<served, call>>

\* base36decode(number)
CallDecode ==
    /\ Called("base36decode")
    /\ ret' = IF DecodeOk(call.arg) THEN Returns(base36decode(call.arg))
              ELSE Raises("ValueError")
    /\ UNCHANGED <<served, call>>

\* The bags process() is called on: up to two of the boolean flags
BooleanValues ==
    {<<"t", "r", "u", "e">>, <<"T", "R", "U", "E">>, <<"T", "r", "u", "e">>, <<"1">>,
     <<"f", "a", "l", "s", "e">>, <<"F", "A", "L", "S", "E">>, <<"0">>,
     <<"y", "e", "s">>, <<"2">>, <<"t", "r", "u">>, <<>>}
FlagNames == {BooleanFlags[i] : i \in DOMAIN BooleanFlags}
FlagBags ==
    {a @@ b : a \in Optional(FlagNames, BooleanValues),
              b \in Optional(FlagNames, BooleanValues)}

\* process(params, query) on a new query
CallProcess ==
    LET res == process(call.arg, NewQuery) IN
    /\ Called("process")
    /\ ret' = IF res.err # "" THEN Raises(res.err)
              ELSE Returns([params |-> res.params, query |-> res.query])
    /\ UNCHANGED <<served, call>>

\* The raw records the loops over hits and rows are called on
RawIds == {0, 10, 35, 36, 47}
RawSubredditIds == {PInt(5), None, PStr(<<"x">>)}
OptionalEntry(key, values) == {EmptyDict} \cup {key :> v : v \in values}
RawComments ==
    {a @@ b @@ c @@ (k_author :> PStr(<<"b", "o", "b">>)) @@ (k_body :> PStr(<<"h", "i">>)) :
        a \in {k_link_id :> PInt(n) : n \in RawIds},
        b \in OptionalEntry(k_parent_id, {PInt(n) : n \in RawIds \cup {100}}),
        c \in OptionalEntry(k_subreddit_id, RawSubredditIds)}
RawSubmissions ==
    {c @@ (k_author :> PStr(<<"b", "o", "b">>)) @@ (k_created_utc :> PInt(50))
       @@ (k_permalink :> PStr(<<"/", "r", "/", "x">>)) :
        c \in OptionalEntry(k_subreddit_id, RawSubredditIds)}
CommentHitArgs == {[id |-> PStr(<<"1", "0", "0">>), source |-> c] : c \in RawComments}
CommentRowArgs == {Put(c, k_id, PInt(100)) : c \in RawComments}
SubmissionHitArgs == {[id |-> PStr(<<"1", "0">>), source |-> c] : c \in RawSubmissions}

\* What the body of a loop over records returns or raises
Looped(rec) == IF rec.err # "" THEN Raises(rec.err) ELSE Returns(rec.source)

\* One turn of the loop of CommentSearch.do_elasticsearch
CallCommentHit ==
    /\ Called("CommentHit")
    /\ ret' = Looped(CommentHit(call.arg))
    /\ UNCHANGED <<served, call>>

\* One turn of the loop of CommentSearch.get_ids
CallCommentRow ==
    /\ Called("CommentRow")
    /\ ret' = Looped(CommentRow(call.arg))
    /\ UNCHANGED <<served, call>>

\* One turn of the loop of SubmissionSearch._process_search_results
CallSubmissionHit ==
    /\ Called("SubmissionHit")
    /\ ret' = Looped(SubmissionHit(call.arg))
    /\ UNCHANGED <<served, call>>

\* The link_id buckets, the submissions found for them and the request
\* parameters the link_id aggregation is processed with
BucketOf(key) == (k_key :> PInt(key)) @@ (k_doc_count :> PInt(2))
LinkIdBuckets ==
    {<<>>, <<BucketOf(10)>>, <<BucketOf(10), BucketOf(47)>>, <<BucketOf(47), BucketOf(10)>>}
CreatedValues == {49, 50, 51}
SubmissionCreated(key, created) ==
    (k_id :> PStr(base36encode(key))) @@ (k_created_utc :> PInt(created))
    @@ (k_permalink :> PStr(<<"/", "r", "/", "x">>))
SubmissionData ==
    UNION {{[key \in found |-> SubmissionCreated(key, created[key])] :
               created \in [found -> CreatedValues]} : found \in SUBSET {10, 47}}
LinkIdArgs ==
    {[buckets |-> b, submission_data |-> d, params |-> p] :
        b \in LinkIdBuckets, d \in SubmissionData,
        p \in Optional({k_after}, {<<"5", "0">>, <<"0">>})}

\* search() compiles the request parameters into self.params; then
\* _process_aggregations filters the link_id buckets
CallLinkId ==
    LET compiled == process(call.arg.params, NewQuery)
        res == process_link_id(call.arg.buckets, call.arg.submission_data, compiled.params)
    IN  /\ Called("process_link_id")
        /\ ret' = IF compiled.err # "" THEN Raises(compiled.err)
                  ELSE IF res.err # "" THEN Raises(res.err)
                  ELSE Returns(res.buckets)
        /\ UNCHANGED <<served, call>>

\* The subreddit buckets of a significant_terms aggregation: the term is
\* counted in the background index, at least once
MaxBuckets == 3
Counts == {<<1, 2>>, <<2, 4>>, <<1, 3>>, <<3, 4>>, <<1, 300000>>, <<1, 400000>>}
SubredditBucket(c) ==
    (k_key :> PStr(s_py)) @@ (k_doc_count :> PInt(c[1])) @@ (k_bg_count :> PInt(c[2]))
SubredditArgs ==
    {[buckets |-> [i \in DOMAIN cs |-> SubredditBucket(cs[i])], handler |-> h] :
        cs \in UNION {[1..n -> Counts] : n \in 0..MaxBuckets}, h \in SearchHandlers}

\* _process_aggregations of either search, the subreddit aggregation
CallSubreddit ==
    LET res == process_subreddit(call.arg.buckets, call.arg.handler) IN
    /\ Called("process_subreddit")
    /\ ret' = IF res.err # "" THEN Raises(res.err) ELSE Returns(res.buckets)
    /\ UNCHANGED <<served, call>>

\* on_get as far as its first backend call: the retrieval by id when the
\* parameters hold ids, or else search() as far as _execute_search.
\* [err, path, query]
Retrieval(params, handler) ==
    IF Has(params, k_ids)
    THEN LET d == DecodeIds(params[k_ids], IF handler = "comment" THEN s_t1 ELSE s_t3) IN
         [err |-> d.err, path |-> "get_ids",
          query |-> IF d.err = "" THEN IdsQuery(d.ids, handler) ELSE NewQuery]
    ELSE LET c == Compile(params, handler) IN
         IF c.err # "" THEN [err |-> c.err, path |-> "search", query |-> NewQuery]
         ELSE LET a == WithAggs(c.params, c.query, handler) IN
              [err |-> a.err, path |-> "search", query |-> a.query]

\* Requests for aggregations: one name or two, known or not, with and
\* without min_doc_count and frequency
AggNames ==
    {k_subreddit, k_author, k_created_utc, k_link_id, k_domain, k_time_of_day,
     <<"f", "o", "o">>, <<"A", "u", "t", "h", "o", "r">>}
AggLists ==
    {<<k_subreddit, k_author>>, <<<<"f", "o", "o">>, k_link_id>>, <<k_time_of_day, k_created_utc>>}
AggBags ==
    {a @@ b @@ c :
        a \in {k_aggs :> PStr(n) : n \in AggNames} \cup {k_aggs :> PList(l) : l \in AggLists},
        b \in Optional({k_min_doc_count}, {<<"5">>, <<"a", "b", "c">>}),
        c \in Optional({k_frequency}, {k_hour})}

\* Bags whose keys are spelled in lower or in upper case
CaseBags ==
    {a @@ b @@ c @@ d :
        a \in Optional({k_q, <<"Q">>}, {<<"x">>}),
        b \in Optional({k_subreddit, <<"S", "U", "B", "R", "E", "D", "D", "I", "T">>}, {s_py}),
        c \in Optional({k_ids, <<"I", "D", "S">>}, {<<"a">>}),
        d \in Optional({k_size, <<"S", "i", "z", "e">>}, {<<"1", "0">>})}

\* Bags whose only filter is subreddit, one value or two, with every
\* spelling of size, limit, sort and order of SizeSortBags
SubredditBags ==
    {a @@ b : a \in {k_subreddit :> PStr(s_py),
                     k_subreddit :> PList(<<s_py, <<"g", "o">>>>)},
              b \in SizeSortBags}

OnGetArgs(bags) == {[params |-> b, handler |-> h] : b \in bags, h \in SearchHandlers}

\* CommentSearch.on_get, SubmissionSearch.on_get on a bag of parameters
CallOnGet ==
    LET res == Retrieval(call.arg.params, call.arg.handler) IN
    /\ Called("on_get")
    /\ ret' = IF res.err # "" THEN Raises(res.err)
              ELSE Returns([path |-> res.path, query |-> res.query])
    /\ UNCHANGED <<served, call>>

FnCalls(fn, args) == {[fn |-> fn, arg |-> a] : a \in args}

FnInit ==
    /\ InitFor(<<>>)
    /\ ret = NotReturned
    /\ \/ call \in FnCalls("base36encode", EncodeArgs)
       \/ call \in FnCalls("base36decode", DecodeArgs)
       \/ call \in FnCalls("process", FlagBags)
       \/ call \in FnCalls("CommentHit", CommentHitArgs)
       \/ call \in FnCalls("CommentRow", CommentRowArgs)
       \/ call \in FnCalls("SubmissionHit", SubmissionHitArgs)
       \/ call \in FnCalls("process_link_id", LinkIdArgs)
       \/ call \in FnCalls("process_subreddit", SubredditArgs)
       \/ call \in FnCalls("on_get", OnGetArgs(AggBags \cup CaseBags \cup SubredditBags))

FnNext ==
    \/ CallEncode
    \/ CallDecode
    \/ CallProcess
    \/ CallCommentHit
    \/ CallCommentRow
    \/ CallSubmissionHit
    \/ CallLinkId
    \/ CallSubreddit
    \/ CallOnGet

FnSpec == FnInit /\ [][FnNext]_vars

(***************************************************************************)
(* Properties of the codec                                                 *)
(***************************************************************************)
\* The characters 0-9 and a-z
InAlphabet(c) == \E i \in DOMAIN Alphabet : Alphabet[i] = c

\* C12: for every n >= 0, base36encode(n) returns a non-empty string of
\* the characters 0-9a-z which base36decode takes back to n, and "0" for 0.
C12_DecodeEncode ==
    (Ended("base36encode") /\ call.arg.t = "int" /\ call.arg.v >= 0) =>
        /\ ret.err = ""
        /\ ret.val # <<>>
        /\ \A i \in DOMAIN ret.val : InAlphabet(ret.val[i])
        /\ DecodeOk(ret.val)
        /\ base36decode(ret.val) = call.arg.v
        /\ call.arg.v = 0 => ret.val = <<"0">>

\* A three-digit number has been encoded
C12_Witness ==
    /\ Ended("base36encode")
    /\ call.arg = PInt(1331)
    /\ ret.val = <<"1", "0", "z">>

\* The strings over 0-9a-z, the empty one excluded
OverAlphabet(x) == x # <<>> /\ \A i \in DOMAIN x : InAlphabet(x[i])

\* C13: base36decode returns for every non-empty string over 0-9a-z, and
\* base36encode takes the result back to the string; base36decode raises
\* for every string with a character outside 0-9a-z.
C13_EncodeDecode ==
    Ended("base36decode") =>
        IF OverAlphabet(call.arg)
        THEN ret.err = "" /\ base36encode(ret.val) = call.arg
        ELSE ret.err # ""

\* C14: base36encode raises for every negative integer.
C14_EncodeRejectsNegative ==
    (Ended("base36encode") /\ call.arg.t = "int" /\ call.arg.v < 0) => ret.err # ""

(***************************************************************************)
(* Properties of the boolean flags                                         *)
(***************************************************************************)
\* The predicates on a field in a filter list
PredicatesIn(filter, field) == {i \in DOMAIN filter : filter[i].field = field}

\* "true" in any letter case or "1"; "false" in any letter case or "0"
MeansTrue(v) == Lower(v) = <<"t", "r", "u", "e">> \/ v = <<"1">>
MeansFalse(v) == Lower(v) = <<"f", "a", "l", "s", "e">> \/ v = <<"0">>

\* C11: process() of a bag of boolean flags returns, and for each of the
\* six flags its filter list holds exactly one term predicate flag = "true"
\* when the bag gives the flag a true value, exactly one term predicate
\* flag = "false" when it gives it a false value, and no predicate on the
\* flag otherwise; it holds no other predicate.
C11_BooleanFlags ==
    (Ended("process") /\ call.arg \in FlagBags) =>
        /\ ret.err = ""
        /\ \A flag \in FlagNames :
              LET filter == ret.val.query.filter
                  on == PredicatesIn(filter, flag)
              IN  IF Has(call.arg, flag) /\ MeansTrue(call.arg[flag].v)
                  THEN /\ Cardinality(on) = 1
                       /\ \A i \in on : filter[i] = TermPred(flag, PStr(<<"t", "r", "u", "e">>))
                  ELSE IF Has(call.arg, flag) /\ MeansFalse(call.arg[flag].v)
                  THEN /\ Cardinality(on) = 1
                       /\ \A i \in on :
                             filter[i] = TermPred(flag, PStr(<<"f", "a", "l", "s", "e">>))
                  ELSE on = {}
        /\ \A i \in DOMAIN ret.val.query.filter :
              \E flag \in FlagNames : ret.val.query.filter[i].field = flag

\* A bag with TRUE for one flag, 0 for a second: one predicate each
C11_Witness ==
    /\ Ended("process")
    /\ call.arg = (BooleanFlags[1] :> PStr(<<"T", "R", "U", "E">>))
                  @@ (BooleanFlags[5] :> PStr(<<"0">>))
    /\ ret.val.query.filter = <<TermPred(BooleanFlags[1], PStr(s_true)),
                                TermPred(BooleanFlags[5], PStr(s_false))>>

(***************************************************************************)
(* Properties of the records returned                                      *)
(***************************************************************************)
\* r asked for records by id and was answered with a success body
ById(r) ==
    /\ At(r, "done")
    /\ Handler(r) \in SearchHandlers
    /\ Has(req[r].params, k_ids)
    /\ resp[r].kind = "success"

TypePrefix(handler) == IF handler = "comment" THEN s_t1 ELSE s_t3

\* C15: a request ids=<prefix><s> that is answered looked the record up by
\* the integer decode(s), and the id of every record of the answer is the
\* identifier asked for, prefix included (in lower case).
C15_IdRoundTrip ==
    \A r \in Reqs :
        ById(r) =>
            LET asked == IdsList(req[r].params[k_ids])
                prefix == TypePrefix(Handler(r))
            IN  /\ q[r].filter =
                      <<TermsPred(k_id, [i \in DOMAIN asked |->
                                            base36decode(StripPrefix(asked[i], prefix))])>>
                /\ \A i \in DOMAIN resp[r].body["data"] :
                      \E j \in DOMAIN asked :
                          /\ StartsWith(Lower(asked[j]), prefix)
                          /\ resp[r].body["data"][i][k_id] = PStr(Lower(asked[j]))

\* The raw record of a call of one of the loop bodies
Raw == IF call.fn = "CommentRow" THEN call.arg ELSE call.arg.source

\* C16: every comment record returned, by the search and by the retrieval
\* by id, has link_id t3_<encoded link_id>, and has parent_id
\* t3_<encoded link_id> when the raw record has no parent_id or one equal to
\* its link_id, t1_<encoded parent_id> otherwise.
C16_ParentId ==
    ((Ended("CommentHit") \/ Ended("CommentRow")) /\ ret.err = "") =>
        LET link == PStr(s_t3 \o base36encode(Raw[k_link_id].v)) IN
        /\ ret.val[k_link_id] = link
        /\ ret.val[k_parent_id] =
              IF ~Has(Raw, k_parent_id) \/ Raw[k_parent_id] = Raw[k_link_id] THEN link
              ELSE PStr(s_t1 \o base36encode(Raw[k_parent_id].v))

\* C17: every turn of the search loops (comments, submissions) returns a
\* record, whose subreddit_id is t5_<encoded id> when the raw record has an
\* integer subreddit_id and null when it has none or one that is no integer.
C17_SubredditId ==
    (Ended("CommentHit") \/ Ended("SubmissionHit")) =>
        /\ ret.err = ""
        /\ ret.val[k_subreddit_id] =
              IF Has(Raw, k_subreddit_id) /\ EncodeOk(Raw[k_subreddit_id])
              THEN PStr(s_t5 \o base36encode(Raw[k_subreddit_id].v))
              ELSE None

(***************************************************************************)
(* Properties of the aggregations                                          *)
(***************************************************************************)
\* A dict without one of its keys
Without(d, key) == [k \in (DOMAIN d) \ {key} |-> d[k]]

\* The threshold of the link_id aggregation: the after parameter of the
\* request, 0 when the request has none
Threshold(params) == IF Has(params, k_after) THEN IntOf(params[k_after]) ELSE 0

\* C18: the link_id aggregation of a comment search returns, in their order,
\* the raw buckets whose submission was found and was created strictly after
\* the after parameter of the request (0 when the request has none), each
\* with the submission as its data.
C18_LinkIdBuckets ==
    Ended("process_link_id") =>
        LET found == call.arg.submission_data
            after == Threshold(call.arg.params)
            Kept(item) == /\ item[k_key].v \in DOMAIN found
                          /\ found[item[k_key].v][k_created_utc].v > after
            raw == SelectSeq(call.arg.buckets, Kept)
        IN  /\ ret.err = ""
            /\ Len(ret.val) = Len(raw)
            /\ \A i \in DOMAIN raw :
                  /\ Without(ret.val[i], k_data) = raw[i]
                  /\ \A k \in DOMAIN found[raw[i][k_key].v] :
                        ret.val[i][k_data].v[k] = found[raw[i][k_key].v][k]

\* r was answered with a success body of records
Answered(r) ==
    /\ At(r, "done")
    /\ Handler(r) \in SearchHandlers
    /\ resp[r].kind = "success"

\* C19: when the request gives a fields allow-list, every record of the
\* answer of a comment or submission request, found by search or by id,
\* holds only fields whose lower-cased name is in the lower-cased allow-list.
C19_FieldsProjection ==
    \A r \in Reqs :
        (Answered(r) /\ Present(req[r].params, k_fields)) =>
            LET allowed == FieldsList(req[r].params)
                data == resp[r].body["data"]
            IN  \A i \in DOMAIN data : \A k \in DOMAIN data[i] :
                    \E j \in DOMAIN allowed : allowed[j] = Lower(k)

\* How often a bucket is in a list
Times(bucket, buckets) == Cardinality({i \in DOMAIN buckets : buckets[i] = bucket})

\* The score of a bucket is doc_count / bg_count: the very ratio in the
\* comment search, a multiple of 0.00001 within half of 0.00001 of it in the
\* submission search
IsRatio(bucket, handler) ==
    LET score == bucket[k_score].v
        gap == score[1] * bucket[k_bg_count].v - bucket[k_doc_count].v * score[2]
    IN  IF handler = "comment" THEN gap = 0
        ELSE score[2] = Places /\ 2 * (IF gap < 0 THEN 0 - gap ELSE gap) <= bucket[k_bg_count].v

KnownAggs(handler) ==
    {k_subreddit, k_author, k_created_utc}
    \cup (IF handler = "comment" THEN {k_link_id} ELSE {k_domain, k_time_of_day})
AllAggs == KnownAggs("comment") \cup KnownAggs("submission")
CapOf(name) ==
    IF name = k_link_id THEN 250 ELSE IF name = k_time_of_day THEN 25 ELSE 1000

\* The names a bag asks aggregations for, lower-cased
AggsAsked(params) ==
    LET l == IF IsStr(params[k_aggs]) THEN <<params[k_aggs].v>> ELSE params[k_aggs].v
    IN  {Lower(l[i]) : i \in DOMAIN l}

\* The threshold a bag asks for: its min_doc_count when numeric, else 0
Supplied(params) ==
    IF Has(params, k_min_doc_count) /\ looks_like_int(params[k_min_doc_count])
    THEN {params[k_min_doc_count], PInt(IntOf(params[k_min_doc_count]))}
    ELSE {PInt(0)}

\* C21: a search that asks for aggregations compiles; for every name asked
\* for that the handler knows, the query holds the aggregation under that
\* name with its bucket cap (1000, link_id 250, time_of_day 25) and with
\* min_doc_count the supplied one when numeric and 0 otherwise; a name no
\* handler knows adds no aggregation.
C21_AggregationSpecs ==
    (Ended("on_get") /\ call.arg.params \in AggBags) =>
        /\ ret.err = ""
        /\ \A name \in AggsAsked(call.arg.params) :
              IF name \in KnownAggs(call.arg.handler)
              THEN /\ Has(ret.val.query.aggs, name)
                   /\ ret.val.query.aggs[name].size = PInt(CapOf(name))
                   /\ ret.val.query.aggs[name].min_doc_count \in Supplied(call.arg.params)
              ELSE name \notin AllAggs => ~Has(ret.val.query.aggs, name)

(***************************************************************************)
(* Properties of the response                                              *)
(***************************************************************************)
\* r was a search (not a retrieval by id) on one of the search routes
Searched(r) == Handler(r) \in SearchHandlers /\ ~Has(req[r].params, k_ids)

SearchMetadataKeys ==
    {"size", "sort", "sort_type", "results_returned", "timed_out", "total_results", "shards"}

\* C22: every successful response, of every endpoint, holds data and
\* metadata, the metadata holding execution_time_milliseconds and version;
\* the metadata of a successful search holds size, sort, sort_type,
\* results_returned, timed_out, total_results and shards as well, and
\* results_returned is the number of records in data.
C22_Envelope ==
    \A r \in Reqs :
        (At(r, "done") /\ resp[r].kind = "success") =>
            /\ {"data", "metadata"} \subseteq DOMAIN resp[r].body
            /\ {"execution_time_milliseconds", "version"} \subseteq DOMAIN resp[r].body["metadata"]
            /\ Searched(r) =>
                  /\ SearchMetadataKeys \subseteq DOMAIN resp[r].body["metadata"]
                  /\ resp[r].body["metadata"]["results_returned"] = Len(resp[r].body["data"])

\* What on_get returns or raises for a bag
Outcome(params, handler) ==
    LET res == Retrieval(params, handler) IN
    IF res.err # "" THEN Raises(res.err)
    ELSE Returns([path |-> res.path, query |-> res.query])

\* C23: a bag whose keys differ from those of another bag in letter case
\* only takes the same retrieval path and compiles to the same query: on_get
\* returns for a bag what it returns for the bag with its keys in lower case.
C23_KeysCaseInsensitive ==
    (Ended("on_get") /\ call.arg.params \in CaseBags) =>
        ret = Outcome(LowerKeys(call.arg.params), call.arg.handler)

\* The size a bag asks for (limit first, as the alias of size) and the
\* direction it asks for (order as the alias of sort): sets of at most one
\* value, empty when the bag asks for none or for one that is not valid
SizeAsked(params) ==
    LET p == LowerKeys(params)
        given == IF Has(p, k_limit) THEN {p[k_limit]}
                 ELSE IF Has(p, k_size) THEN {p[k_size]} ELSE {}
    IN  {IntOf(x) : x \in {y \in given : looks_like_int(y) /\ IntOf(y) \in 1..500}}
DirectionAsked(params) ==
    LET p == LowerKeys(params)
        given == IF Has(p, k_order) THEN {p[k_order]}
                 ELSE IF Has(p, k_sort) THEN {p[k_sort]} ELSE {}
    IN  {Lower(x.v) : x \in {y \in given : Lower(y.v) \in {k_asc, k_desc}}}

\* The values of a parameter, lower-cased
LoweredValues(x) ==
    LET l == IF IsStr(x) THEN <<x.v>> ELSE x.v IN [i \in DOMAIN l |-> Lower(l[i])]

\* C24: a search whose only filter parameter is subreddit compiles to a
\* query with exactly one predicate in its filter list, the terms predicate
\* on subreddit with the lower-cased values, with the size asked for (by
\* size or by limit) and with the one sort pair created_utc -> the direction
\* asked for (by sort or by order).
C24_SubredditQuery ==
    (Ended("on_get") /\ call.arg.params \in SubredditBags) =>
        /\ ret.err = ""
        /\ ret.val.path = "search"
        /\ ret.val.query.filter =
              <<TermsPred(k_subreddit, LoweredValues(call.arg.params[k_subreddit]))>>
        /\ ret.val.query.must_not = <<>>
        /\ \A n \in SizeAsked(call.arg.params) : ret.val.query.size = PInt(n)
        /\ Len(ret.val.query.sort) = 2
        /\ ret.val.query.sort[1] = k_created_utc
        /\ \A d \in DirectionAsked(call.arg.params) : ret.val.query.sort[2] = d

\* subreddit=Py with limit=7 and order=asc on the comment search
C24_Witness ==
    /\ Ended("on_get")
    /\ call.arg.handler = "comment"
    /\ call.arg.params = (k_subreddit :> PStr(s_py)) @@ (k_limit :> PStr(<<"7">>))
                         @@ (k_order :> PStr(k_asc))
    /\ ret.val.query = [NewQuery EXCEPT !.filter = <<TermsPred(k_subreddit, <<<<"p", "y">>>>)>>,
                                        !.size = PInt(7),
                                        !.sort = <<k_created_utc, k_asc>>]

(***************************************************************************)
(* Properties of PostgreSQLManager.execute                                 *)
(***************************************************************************)
\* The call of execute made for r ended in a failure that operational
\* errors caused: the retries ran out, or connect() raised
FailedOperational(r) ==
    /\ r \in Live
    /\ rows[r].done
    /\ rows[r].err \in {"DatabaseError: retries", "OperationalError"}

\* C25: a call of execute that ends in a failure caused by operational
\* errors has made exactly max_retries query attempts; a failing reconnect
\* does not end it earlier.
C25_FailsAfterAllAttempts ==
    \A r \in Reqs : FailedOperational(r) => attempts[r] = max_retries

(***************************************************************************)
(* Properties of SubmissionSearch.get_ids                                  *)
(***************************************************************************)
\* The thread serving r called the search engine from get_ids
CalledGetIds(r) == \E i \in DOMAIN calls[r] : calls[r][i].fn = "get_ids"

\* C26: a thread that retrieves submissions by id makes one backend call,
\* on the primary; when that call fails the thread raises
\* ElasticsearchError and makes no other call, and its request ends with
\* the error envelope.
C26_GetIdsPrimaryOnly ==
    \A r \in Reqs :
        (r \in Live /\ CalledGetIds(r)) =>
            /\ Len(calls[r]) = 1
            /\ calls[r][1].to = "primary"
            /\ ~calls[r][1].ok =>
                  /\ pc[r] \in {"except", "done"}
                  /\ exc[r] = "ElasticsearchError"
                  /\ pc[r] = "done" =>
                        resp[r] = ErrorEnvelope("Internal server error", "ElasticsearchError")

\* A retrieval by id whose one call failed has ended with the envelope
C26_Witness ==
    \E r \in Reqs :
        /\ At(r, "done")
        /\ CalledGetIds(r)
        /\ ~calls[r][1].ok
        /\ resp[r].kind = "error"

\* The errors of cur.execute that are not operational
NonOperational == {"DatabaseError", "Exception"}

\* C27: execute raises an error that is not operational on the attempt
\* where it occurs: the step that meets it leaves the connection handle and
\* the retry counter alone and raises, and the call makes no query attempt
\* and no reconnect after it.
C27_NonOperationalNotRetried ==
    [][\A r \in Reqs :
          /\ (r \in Live /\ ~rows[r].done /\ rows'[r].done /\ rows'[r].err \in NonOperational) =>
                /\ db' = db
                /\ retries'[r] = retries[r]
                /\ pc'[r] = "except"
          /\ (r \in Live /\ rows[r].done /\ rows[r].err \in NonOperational) =>
                /\ attempts'[r] = attempts[r]
                /\ rows'[r] = rows[r]
                /\ pc'[r] \notin {"db_query", "db_reconnect"}
                /\ db' # db => db'[1] # r]_vars

\* A call that reconnected once and then met an error that is not
\* operational, on its second attempt
C27_Witness ==
    \E r \in Reqs :
        /\ r \in Live
        /\ rows[r].done
        /\ rows[r].err = "DatabaseError"
        /\ attempts[r] = 2
        /\ db = <<r, 1>>

\* C28: under every interleaving a call of execute makes at most
\* max_retries query attempts, and its retry counter and its attempts change
\* in steps of its own thread only.
C28_BudgetPerCall ==
    /\ [](\A r \in Reqs : attempts[r] <= max_retries)
    /\ [][\A r \in Reqs :
             (retries'[r] # retries[r] \/ attempts'[r] # attempts[r]) => pc'[r] # pc[r]]_vars

\* Two calls under way at once, one on its last attempt and one on its
\* second
C28_Witness ==
    \E r, s \in Reqs :
        /\ r # s
        /\ At(r, "db_query") /\ attempts[r] = 4 /\ retries[r] = 1
        /\ At(s, "db_query") /\ attempts[s] = 1 /\ retries[s] = 4

=============================================================================
